---- MODULE Spec2Model ----
(***************************************************************************)
(* TrendSnap: the Gemini retry/fallback wrapper (services/geminiService),  *)
(* the URL normalisation helpers (lib/utils and their copies in the admin  *)
(* panel and the Video Scribe page) and the page routing / authentication  *)
(* state of App.                                                           *)
(*                                                                         *)
(* JavaScript strings are TLA+ strings; Len, SubSeq and \o act on them     *)
(* character by character, so String.includes and the regular expressions *)
(* of the source are computed on the characters, not assumed.              *)
(***************************************************************************)
EXTENDS Integers, Sequences, FiniteSets, TLC

VARIABLES
    \* ---- geminiService: one call of generateImageFromPrompt / generateDecadeImage
    fn,            \* which exported function is running ("none" before the call)
    pc,            \* "idle" | "calling" | "delay" | "done"
    imageDataUrl,  \* argument imageDataUrl
    prompt,        \* argument prompt
    textPart,      \* text of the textPart handed to callGeminiWithRetry in this round
    round,         \* 0 before the first round, 1 original prompt, 2 fallback prompt
    attempt,       \* loop variable of callGeminiWithRetry
    apiCalls,      \* apiCalls[r]: generateContent calls issued in round r
    lastCall,      \* the last generateContent call: its round, attempt and the
                   \* value it rejected with (NoThrown when it resolved)
    delays,        \* delays[r]: setTimeout delays awaited in round r
    roundErrors,   \* errors the finished rounds threw, in order
    response,      \* response the last successful generateContent call resolved to
    outcome,       \* what the exported function returned or threw
    \* ---- a pure helper applied to an argument
    applied,       \* how many times the helper has been applied (0, 1, 2)
    arg,           \* the argument
    result,        \* what the helper returned for arg
    again,         \* what the helper returned when applied to its own result
    \* ---- App, LoginPage and the admin panel
    variant,           \* which App of App.tsx runs: "apiService" (lines 52-275)
                       \* or "inlineFetch" (lines 329-499)
    currentPage,       \* App state currentPage
    isAuthenticated,   \* App state isAuthenticated
    isLoadingContent,  \* App state isLoadingContent (apiService App only)
    fetchPending,      \* the initial loadData / fetchData has not settled yet
    apiError,          \* App state apiError (inlineFetch App only)
    collectionItems,   \* App state collectionItems
    videoItems,        \* App state videoItems
    fetchOutcome,      \* how the two requests of the initial fetch ended
    storedAuth,        \* localStorage item 'isAuthenticated'
    setItemThrew,      \* the last localStorage.setItem threw (and was only logged)
    password,          \* LoginPage state password
    loginError,        \* LoginPage state error
    loginIsLoading,    \* LoginPage state isLoading
    timers,            \* pending setTimeout callbacks of handleSubmit
    inflight,          \* admin requests sent and not yet settled
    overlap,           \* admin handlers are started while others are in flight
    panel,             \* the kinds of item the administrator works on
    lastDirect,        \* the last operation of the AdminPage that sets the state directly
    \* ---- CreatePage
    initialPrompt,     \* CreatePage prop initialPrompt
    uploadedImage,     \* CreatePage state uploadedImage ("null" or a data URL)
    promptText,        \* CreatePage state prompt
    generatedResult,   \* CreatePage state generatedResult
    isLoading,         \* CreatePage state isLoading
    generations,       \* generateImageFromPrompt calls handleGenerate awaits
    \* ---- history of the authentication, kept for the properties only
    matchingSubmission, \* a form was submitted with password 'Raju' entered
    restoredAtMount,    \* localStorage held 'true' when App mounted
    loggedOut           \* handleLogout ran and no login succeeded since

cvars == <<initialPrompt, uploadedImage, promptText, generatedResult, isLoading,
           generations>>

gvars == <<fn, pc, imageDataUrl, prompt, textPart, round, attempt, apiCalls,
           lastCall, delays, roundErrors, response, outcome>>

pvars == <<applied, arg, result, again>>

avars == <<variant, currentPage, isAuthenticated, isLoadingContent, fetchPending,
           apiError, collectionItems, videoItems, fetchOutcome, storedAuth,
           setItemThrew, password, loginError, loginIsLoading, timers, inflight,
           overlap, panel, lastDirect,
           matchingSubmission, restoredAtMount, loggedOut, cvars>>

authHistory == <<matchingSubmission, restoredAtMount, loggedOut>>

vars == <<gvars, pvars, avars>>

(***************************************************************************)
(* Strings                                                                 *)
(***************************************************************************)
Char(s, i) == SubSeq(s, i, i)

\* String.prototype.includes
Includes(s, sub) ==
    \E i \in 1..(Len(s) - Len(sub) + 1) : SubSeq(s, i, i + Len(sub) - 1) = sub

\* s has sub at position i
HasAt(s, i, sub) ==
    /\ i >= 1
    /\ i + Len(sub) - 1 <= Len(s)
    /\ SubSeq(s, i, i + Len(sub) - 1) = sub

Digits == {"0", "1", "2", "3", "4", "5", "6", "7", "8", "9"}

Letters ==
    {"a", "b", "c", "d", "e", "f", "g", "h", "i", "j", "k", "l", "m",
     "n", "o", "p", "q", "r", "s", "t", "u", "v", "w", "x", "y", "z",
     "A", "B", "C", "D", "E", "F", "G", "H", "I", "J", "K", "L", "M",
     "N", "O", "P", "Q", "R", "S", "T", "U", "V", "W", "X", "Y", "Z"}

\* the class \w
WordChars == Letters \cup Digits \cup {"_"}

\* the characters "." does not match
LineTerminators == {"\n", "\r"}

\* length of the longest run of characters of class cls that starts at i
\* (what a greedy cls* consumes at i)
RunLen(s, i, cls) ==
    CHOOSE n \in 0..(Len(s) - i + 1) :
        /\ \A k \in 0..(n - 1) : Char(s, i + k) \in cls
        /\ (i + n > Len(s) \/ Char(s, i + n) \notin cls)

NoMatch == [matched |-> FALSE]

(***************************************************************************)
(* geminiService: error types                                              *)
(***************************************************************************)
GeminiErrorType == {"BLOCKED", "RATE_LIMIT", "SERVER_ERROR", "UNKNOWN"}

\* origin stands for the identity of the error object: the round in which
\* it was constructed (0 for the argument check before any round)
GeminiError(message, type, origin) ==
    [name |-> "GeminiError", message |-> message, type |-> type, origin |-> origin]

PlainError(message, origin) ==
    [name |-> "Error", message |-> message, type |-> "none", origin |-> origin]

IsGeminiError(e) == e.name = "GeminiError"

(***************************************************************************)
(* geminiService: helpers                                                  *)
(***************************************************************************)
getFallbackPrompt(decade) ==
    "Create a photograph of the person in this image as if they were living in the "
    \o decade
    \o ". The photograph should capture the distinct fashion, hairstyles, and overall atmosphere of that time period. Ensure the final image is a clear photograph that looks authentic to the era."

NoDecade == "<null>"

\* a match of /(\d{4}s)/ starts at i
DecadeAt(s, i) ==
    /\ i + 4 <= Len(s)
    /\ \A k \in 0..3 : Char(s, i + k) \in Digits
    /\ Char(s, i + 4) = "s"

\* prompt.match(/(\d{4}s)/): the leftmost match, or null
extractDecade(p) ==
    IF \E i \in 1..Len(p) : DecadeAt(p, i)
    THEN LET i == CHOOSE j \in 1..Len(p) :
                     DecadeAt(p, j) /\ \A k \in 1..(j - 1) : ~DecadeAt(p, k)
         IN  SubSeq(p, i, i + 4)
    ELSE NoDecade

\* variant: the subtype may be empty (\w* for \w+)
MatchDataUrl_EmptySubtype(s) ==
    IF ~HasAt(s, 1, "data:image/") THEN NoMatch
    ELSE LET w == RunLen(s, 12, WordChars)
             semi == 12 + w
         IN  IF ~HasAt(s, semi, ";base64,") THEN NoMatch
             ELSE LET d == semi + 8
                  IN  IF \E k \in d..Len(s) : Char(s, k) \in LineTerminators
                      THEN NoMatch
                      ELSE [matched |-> TRUE,
                            mimeType |-> SubSeq(s, 6, semi - 1),
                            base64Data |-> SubSeq(s, d, Len(s))]

\* imageDataUrl.match(/^data:(image\/\w+);base64,(.*)$/)
MatchDataUrl(s) ==
    IF ~HasAt(s, 1, "data:image/") THEN NoMatch
    ELSE LET w == RunLen(s, 12, WordChars)
             semi == 12 + w
         IN  IF w = 0 \/ ~HasAt(s, semi, ";base64,") THEN NoMatch
             ELSE LET d == semi + 8
                  IN  IF \E k \in d..Len(s) : Char(s, k) \in LineTerminators
                      THEN NoMatch
                      ELSE [matched |-> TRUE,
                            mimeType |-> SubSeq(s, 6, semi - 1),
                            base64Data |-> SubSeq(s, d, Len(s))]

(***************************************************************************)
(* geminiService: processGeminiResponse                                    *)
(***************************************************************************)
NoError == [name |-> "none", message |-> "", type |-> "none", origin |-> 0]

Returned(v) == [kind |-> "returned", value |-> v, error |-> NoError]
Thrown(e) == [kind |-> "thrown", value |-> "", error |-> e]
NoOutcome == [kind |-> "none", value |-> "", error |-> NoError]

\* response.candidates?.[0]?.finishReason === 'SAFETY'
FirstFinishReasonIsSafety(r) ==
    /\ Len(r.candidates) >= 1
    /\ r.candidates[1].finishReason = "SAFETY"

\* response.candidates?.[0]?.content?.parts (absent content reads as no parts)
FirstCandidateParts(r) ==
    IF Len(r.candidates) >= 1 /\ r.candidates[1].hasContent
    THEN r.candidates[1].parts
    ELSE <<>>

\* parts.find(part => part.inlineData): index of the first such part, 0 if none
FindInlineData(parts) ==
    IF \E i \in 1..Len(parts) : parts[i].hasInlineData
    THEN CHOOSE i \in 1..Len(parts) :
             /\ parts[i].hasInlineData
             /\ \A k \in 1..(i - 1) : ~parts[k].hasInlineData
    ELSE 0

BlockedSafetyMessage == "The prompt or image was blocked due to safety policies."
BlockedTextMessage ==
    "The AI model responded with text instead of an image, which may indicate a content policy issue."

\* variant: an image part is returned before the safety check is made
processGeminiResponse_ImageFirst(r, origin) ==
    LET parts == FirstCandidateParts(r)
        i == FindInlineData(parts)
    IN  IF i > 0
        THEN Returned("data:" \o parts[i].mimeType \o ";base64," \o parts[i].data)
        ELSE IF r.blockReason = "SAFETY" \/ FirstFinishReasonIsSafety(r)
        THEN Thrown(GeminiError(BlockedSafetyMessage, "BLOCKED", origin))
        ELSE Thrown(GeminiError(BlockedTextMessage, "BLOCKED", origin))

\* origin: the round the call belongs to (identity of a thrown error object)
processGeminiResponse(r, origin) ==
    IF r.blockReason = "SAFETY" \/ FirstFinishReasonIsSafety(r)
    THEN Thrown(GeminiError(BlockedSafetyMessage, "BLOCKED", origin))
    ELSE LET parts == FirstCandidateParts(r)
             i == FindInlineData(parts)
         IN  IF i > 0
             THEN Returned("data:" \o parts[i].mimeType \o ";base64," \o parts[i].data)
             ELSE Thrown(GeminiError(BlockedTextMessage, "BLOCKED", origin))

(***************************************************************************)
(* geminiService: callGeminiWithRetry, one catch block                     *)
(***************************************************************************)
maxRetries == 3
initialDelay == 1000

\* Math.pow(2, n)
RECURSIVE Pow2(_)
Pow2(n) == IF n <= 0 THEN 1 ELSE 2 * Pow2(n - 1)

\* JSON.stringify of a thrown string value (values here need no escaping)
JSONStringify(v) == "\"" \o v \o "\""

\* error instanceof Error ? error.message : JSON.stringify(error)
ErrorMessageOf(e) == IF e.kind = "Error" THEN e.text ELSE JSONStringify(e.text)

IsRateLimit(msg) == Includes(msg, "429")

IsInternalError(msg) ==
    Includes(msg, "500") \/ Includes(msg, "INTERNAL") \/ Includes(msg, "503")

RateLimitMessage == "You are making too many requests. Please wait and try again later."
ServerErrorMessage == "The AI model service is currently unavailable. Please try again later."

\* variant: every error but a rate limit is retried
CatchDecision_RetryAny(e, att, origin) ==
    LET errorMessage == ErrorMessageOf(e)
    IN  IF IsRateLimit(errorMessage)
        THEN [retry |-> FALSE, delay |-> 0,
              error |-> GeminiError(RateLimitMessage, "RATE_LIMIT", origin)]
        ELSE IF att < maxRetries
        THEN [retry |-> TRUE, delay |-> initialDelay * Pow2(att - 1), error |-> NoError]
        ELSE IF IsInternalError(errorMessage)
        THEN [retry |-> FALSE, delay |-> 0,
              error |-> GeminiError(ServerErrorMessage, "SERVER_ERROR", origin)]
        ELSE [retry |-> FALSE, delay |-> 0,
              error |-> GeminiError("An unknown API error occurred: " \o errorMessage,
                                    "UNKNOWN", origin)]

\* variant: the internal-error test comes before the rate-limit test
CatchDecision_InternalFirst(e, att, origin) ==
    LET errorMessage == ErrorMessageOf(e)
    IN  IF IsInternalError(errorMessage) /\ att < maxRetries
        THEN [retry |-> TRUE, delay |-> initialDelay * Pow2(att - 1), error |-> NoError]
        ELSE IF IsInternalError(errorMessage)
        THEN [retry |-> FALSE, delay |-> 0,
              error |-> GeminiError(ServerErrorMessage, "SERVER_ERROR", origin)]
        ELSE IF IsRateLimit(errorMessage)
        THEN [retry |-> FALSE, delay |-> 0,
              error |-> GeminiError(RateLimitMessage, "RATE_LIMIT", origin)]
        ELSE [retry |-> FALSE, delay |-> 0,
              error |-> GeminiError("An unknown API error occurred: " \o errorMessage,
                                    "UNKNOWN", origin)]

\* variant: an internal error on the last attempt falls through to UNKNOWN
CatchDecision_NoServerError(e, att, origin) ==
    LET errorMessage == ErrorMessageOf(e)
    IN  IF IsRateLimit(errorMessage)
        THEN [retry |-> FALSE, delay |-> 0,
              error |-> GeminiError(RateLimitMessage, "RATE_LIMIT", origin)]
        ELSE IF IsInternalError(errorMessage) /\ att < maxRetries
        THEN [retry |-> TRUE, delay |-> initialDelay * Pow2(att - 1), error |-> NoError]
        ELSE [retry |-> FALSE, delay |-> 0,
              error |-> GeminiError("An unknown API error occurred: " \o errorMessage,
                                    "UNKNOWN", origin)]

\* what the catch block does with a rejection on the given attempt:
\* "retry" (wait, then loop) or the GeminiError it throws
CatchDecision(e, att, origin) ==
    LET errorMessage == ErrorMessageOf(e)
    IN  IF IsRateLimit(errorMessage)
        THEN [retry |-> FALSE, delay |-> 0,
              error |-> GeminiError(RateLimitMessage, "RATE_LIMIT", origin)]
        ELSE IF IsInternalError(errorMessage) /\ att < maxRetries
        THEN [retry |-> TRUE, delay |-> initialDelay * Pow2(att - 1), error |-> NoError]
        ELSE IF IsInternalError(errorMessage)
        THEN [retry |-> FALSE, delay |-> 0,
              error |-> GeminiError(ServerErrorMessage, "SERVER_ERROR", origin)]
        ELSE [retry |-> FALSE, delay |-> 0,
              error |-> GeminiError("An unknown API error occurred: " \o errorMessage,
                                    "UNKNOWN", origin)]

(***************************************************************************)
(* geminiService: inputs                                                   *)
(***************************************************************************)
\* image arguments: well formed, empty payload, and malformed in each part
\* of /^data:(image\/\w+);base64,(.*)$/
ImageDataUrls ==
    {"data:image/png;base64,iVBORw0KGgo=",
     "data:image/jpeg;base64,",
     "data:image/svg+xml;base64,PHN2Zz4=",
     "data:image/;base64,AAAA",
     "data:text/plain;base64,AAAA",
     "data:image/png;base32,AAAA",
     " data:image/png;base64,AAAA",
     "data:image/png;base64,AA\nAA",
     "https://example.com/photo.png"}

Prompts ==
    {"Reimagine the person in this photograph in the style of the 1950s.",
     "Cyberpunk warrior princess with neon katanas",
     "A portrait from 1950 or the 80s",
     "Poster 21980s look, not 1990s"}

\* values generateContent rejects with: Error objects and plain strings
NoThrown == [kind |-> "none", text |-> ""]

ThrownValues ==
    [kind : {"Error"},
     text : {"got status: 429 Too Many Requests",
             "got status: 500 Internal Server Error",
             "got status: 503 Service Unavailable",
             "{\"error\":{\"status\":\"INTERNAL\"}}",
             "429 quota exceeded after 500 INTERNAL",
             "got status: 404 Not Found",
             "fetch failed"}]
    \cup [kind : {"string"}, text : {"429", "timeout"}]

TextPart == [hasInlineData |-> FALSE, mimeType |-> "", data |-> ""]
PngPart == [hasInlineData |-> TRUE, mimeType |-> "image/png", data |-> "UE5H"]
JpegPart == [hasInlineData |-> TRUE, mimeType |-> "image/jpeg", data |-> "SlBH"]

NoResponse == [blockReason |-> "<no response>", candidates |-> <<>>]

Candidate(finishReason, parts) ==
    [finishReason |-> finishReason, hasContent |-> TRUE, parts |-> parts]

\* responses generateContent resolves to in the pipeline: one per way
\* processGeminiResponse can go
PipelineResponses ==
    {[blockReason |-> "none", candidates |-> <<Candidate("STOP", <<TextPart, PngPart>>)>>],
     [blockReason |-> "none", candidates |-> <<Candidate("STOP", <<JpegPart>>)>>],
     [blockReason |-> "none", candidates |-> <<Candidate("STOP", <<TextPart>>)>>],
     [blockReason |-> "none", candidates |-> <<Candidate("SAFETY", <<PngPart>>)>>],
     [blockReason |-> "SAFETY", candidates |-> <<>>],
     [blockReason |-> "OTHER", candidates |-> <<>>]}

(***************************************************************************)
(* geminiService: generateImageFromPrompt / generateDecadeImage            *)
(***************************************************************************)
InvalidDataUrlMessage ==
    "Invalid image data URL format. Expected 'data:image/...;base64,...'"

\* variant: any GeminiError of the first round starts the fallback
ShouldFallback_AnyGeminiError(f, rnd, e, p) ==
    /\ f = "generateDecadeImage"
    /\ rnd = 1
    /\ IsGeminiError(e)
    /\ extractDecade(p) # NoDecade

\* generateDecadeImage, the catch of the first round: is the fallback round run
ShouldFallback(f, rnd, e, p) ==
    /\ f = "generateDecadeImage"
    /\ rnd = 1
    /\ IsGeminiError(e) /\ e.type = "BLOCKED"
    /\ extractDecade(p) # NoDecade

\* variant: the first round's error is thrown after a failed fallback
FallbackCatch_First(error, fallbackError) == error

\* generateDecadeImage, the catch of the fallback round: which error is thrown
FallbackCatch(error, fallbackError) == fallbackError

\* the error a failed round makes the exported function throw
ErrorToThrow(rnd, errs, e) ==
    IF rnd = 2 THEN FallbackCatch(errs[1], e) ELSE e

\* the current round ends with error e: the catch blocks of the exported function
RoundFails(e) ==
    /\ roundErrors' = Append(roundErrors, e)
    /\ IF ShouldFallback(fn, round, e, prompt)
       THEN /\ pc' = "calling"
            /\ round' = 2
            /\ attempt' = 1
            /\ textPart' = getFallbackPrompt(extractDecade(prompt))
            /\ UNCHANGED outcome
       ELSE /\ pc' = "done"
            /\ outcome' = Thrown(ErrorToThrow(round, roundErrors, e))
            /\ UNCHANGED <<round, attempt, textPart>>

\* the exported function is called: the argument check, then the first round begins
Invoke(f, url, p) ==
    /\ pc = "idle"
    /\ fn' = f
    /\ imageDataUrl' = url
    /\ prompt' = p
    /\ IF MatchDataUrl(url).matched
       THEN /\ pc' = "calling"
            /\ round' = 1
            /\ attempt' = 1
            /\ textPart' = p
            /\ UNCHANGED outcome
       ELSE /\ pc' = "done"
            /\ outcome' = Thrown(PlainError(InvalidDataUrlMessage, 0))
            /\ UNCHANGED <<round, attempt, textPart>>
    /\ UNCHANGED <<apiCalls, lastCall, delays, roundErrors, response, pvars, avars>>

\* generateContent is called and resolves to r: callGeminiWithRetry returns it
\* and the caller runs processGeminiResponse
GenerateContentResolves(r) ==
    /\ pc = "calling"
    /\ apiCalls' = [apiCalls EXCEPT ![round] = @ + 1]
    /\ lastCall' = [round |-> round, attempt |-> attempt, thrown |-> NoThrown]
    /\ response' = r
    /\ LET res == processGeminiResponse(r, round)
       IN  IF res.kind = "returned"
           THEN /\ pc' = "done"
                /\ outcome' = res
                /\ UNCHANGED <<round, attempt, textPart, roundErrors>>
           ELSE RoundFails(res.error)
    /\ UNCHANGED <<fn, imageDataUrl, prompt, delays, pvars, avars>>

\* generateContent is called and rejects with e: the catch block of the loop
GenerateContentRejects(e) ==
    /\ pc = "calling"
    /\ apiCalls' = [apiCalls EXCEPT ![round] = @ + 1]
    /\ lastCall' = [round |-> round, attempt |-> attempt, thrown |-> e]
    /\ LET d == CatchDecision(e, attempt, round)
       IN  IF d.retry
           THEN /\ pc' = "delay"
                /\ delays' = [delays EXCEPT ![round] = Append(@, d.delay)]
                /\ UNCHANGED <<round, attempt, textPart, roundErrors, outcome>>
           ELSE /\ RoundFails(d.error)
                /\ UNCHANGED delays
    /\ UNCHANGED <<fn, imageDataUrl, prompt, response, pvars, avars>>

AfterRetriesMessage == "Gemini API call failed after all retries."

\* the setTimeout of the retry delay fires: attempt++ and the loop test; the
\* throw after the loop runs when the test fails
DelayElapsed ==
    /\ pc = "delay"
    /\ IF attempt + 1 <= maxRetries
       THEN /\ pc' = "calling"
            /\ attempt' = attempt + 1
            /\ UNCHANGED <<textPart, round, roundErrors, outcome>>
       ELSE RoundFails(GeminiError(AfterRetriesMessage, "SERVER_ERROR", round))
    /\ UNCHANGED <<fn, imageDataUrl, prompt, apiCalls, lastCall, delays, response, pvars,
                   avars>>

NotApplied == "<not applied>"

\* no helper is under test
PureIdle ==
    /\ applied = 0
    /\ arg = NotApplied
    /\ result = NotApplied
    /\ again = NotApplied

Item(id, url) == [id |-> id, url |-> url]
NoItem == Item("", "")

\* a request a handler awaits: status "sent" until its response arrives, then
\* "ok" or "failed", with the item of the response body (NoItem where the
\* handler reads none); file tells whether the handler was given a file
Request(kind, op, next, id, url, file) ==
    [kind |-> kind, op |-> op, next |-> next, id |-> id, url |-> url,
     file |-> file, status |-> "sent", returned |-> NoItem]

\* how one request of the initial fetch can end, with the list in its body
FetchResult(status, data) == [status |-> status, data |-> data]

\* the initial fetch: "pending" until both requests have ended, "handled" once
\* the handler has gone on after its await
FetchOutcome(images, videos) == [images |-> images, videos |-> videos]
FetchPendingOutcome == FetchOutcome(FetchResult("pending", <<>>), FetchResult("pending", <<>>))
FetchHandled == FetchOutcome(FetchResult("handled", <<>>), FetchResult("handled", <<>>))

\* an operation of the AdminPage of part_005, which sets the state without
\* a request; turn tells one operation from the same one made again
DirectOperation(kind, op, id, returned, turn) ==
    [kind |-> kind, op |-> op, id |-> id, returned |-> returned, turn |-> turn]
NoDirectOperation == DirectOperation("none", "none", "", NoItem, 0)

\* CreatePage state generatedResult: { status, url?, error? }
GeneratedResult(status, url, error) == [status |-> status, url |-> url, error |-> error]
Undefined == "undefined"
IdleResult == GeneratedResult("idle", Undefined, Undefined)

\* CreatePage is not mounted
CreateIdle ==
    /\ initialPrompt = ""
    /\ uploadedImage = "null"
    /\ promptText = ""
    /\ generatedResult = IdleResult
    /\ isLoading = FALSE
    /\ generations = <<>>

\* the App is not running
AppIdle ==
    /\ CreateIdle
    /\ variant = "none"
    /\ currentPage = "home"
    /\ isAuthenticated = FALSE
    /\ isLoadingContent = FALSE
    /\ fetchPending = FALSE
    /\ apiError = "null"
    /\ collectionItems = <<>>
    /\ videoItems = <<>>
    /\ fetchOutcome = FetchPendingOutcome
    /\ overlap = FALSE
    /\ panel = {"image"}
    /\ lastDirect = NoDirectOperation
    /\ storedAuth = "null"
    /\ setItemThrew = FALSE
    /\ password = ""
    /\ loginError = ""
    /\ loginIsLoading = FALSE
    /\ timers = <<>>
    /\ inflight = <<>>
    /\ matchingSubmission = FALSE
    /\ restoredAtMount = FALSE
    /\ loggedOut = FALSE

GeminiOnly ==
    /\ fn = "none"
    /\ pc = "idle"
    /\ imageDataUrl = ""
    /\ prompt = ""
    /\ textPart = ""
    /\ round = 0
    /\ attempt = 0
    /\ apiCalls = <<0, 0>>
    /\ lastCall = [round |-> 0, attempt |-> 0, thrown |-> NoThrown]
    /\ delays = << <<>>, <<>> >>
    /\ roundErrors = <<>>
    /\ response = NoResponse
    /\ outcome = NoOutcome

GeminiIdle == GeminiOnly /\ AppIdle

GeminiInit == GeminiIdle /\ PureIdle

InvokeAny ==
    \E f \in {"generateImageFromPrompt", "generateDecadeImage"},
       url \in ImageDataUrls, p \in Prompts : Invoke(f, url, p)

Resolves == \E r \in PipelineResponses : GenerateContentResolves(r)

Rejects == \E e \in ThrownValues : GenerateContentRejects(e)

GeminiNext == InvokeAny \/ Resolves \/ Rejects \/ DelayElapsed

SpecGemini == GeminiInit /\ [][GeminiNext]_vars

(***************************************************************************)
(* processGeminiResponse applied to every response shape                   *)
(***************************************************************************)
MaxParts == 2
MaxCandidates == 2

PartSeqs == UNION {[1..n -> {TextPart, PngPart, JpegPart}] : n \in 0..MaxParts}

\* candidates[0]: each finish reason, with content absent or any parts
FirstCandidates ==
    [finishReason : {"STOP", "SAFETY"}, hasContent : {TRUE}, parts : PartSeqs]
    \cup [finishReason : {"STOP", "SAFETY"}, hasContent : {FALSE}, parts : {<<>>}]

\* candidates[1..]: an image candidate and a blocked one
OtherCandidates == {Candidate("STOP", <<JpegPart>>), Candidate("SAFETY", <<>>)}

CandidateSeqs ==
    {<<>>} \cup
    {<<c>> \o rest : c \in FirstCandidates,
                     rest \in UNION {[1..n -> OtherCandidates] : n \in 0..(MaxCandidates - 1)}}

Responses ==
    [blockReason : {"none", "SAFETY", "OTHER"}, candidates : CandidateSeqs]

ResponseInit ==
    /\ GeminiIdle
    /\ applied = 0
    /\ arg \in Responses
    /\ result = NoOutcome
    /\ again = NotApplied

ApplyProcessGeminiResponse ==
    /\ applied = 0
    /\ applied' = 1
    /\ result' = processGeminiResponse(arg, 1)
    /\ UNCHANGED <<gvars, avars, arg, again>>

ResponseNext == ApplyProcessGeminiResponse

SpecResponse == ResponseInit /\ [][ResponseNext]_vars

(***************************************************************************)
(* lib/utils: convertGoogleDriveUrl                                        *)
(***************************************************************************)
\* the class [a-zA-Z0-9_-]
IdChars == WordChars \cup {"-"}

\* the quantifier {25,} of the file id
MinFileIdLen == 25

Null == "<null>"

\* the alternatives of the pattern, in order: the text before each capture group
DriveMarkers == <<"/file/d/", "id=", "uc?id=">>

\* alternative k of the pattern matches at position i
DriveAlternativeAt(url, i, k) ==
    /\ HasAt(url, i, DriveMarkers[k])
    /\ RunLen(url, i + Len(DriveMarkers[k]), IdChars) >= MinFileIdLen

DriveMatchAt(url, i) == \E k \in 1..3 : DriveAlternativeAt(url, i, k)

\* url.match(regex): the leftmost position where an alternative matches, the
\* first alternative that matches there and the capture it makes (greedy)
DriveMatch(url) ==
    IF \E i \in 1..Len(url) : DriveMatchAt(url, i)
    THEN LET i == CHOOSE j \in 1..Len(url) :
                     DriveMatchAt(url, j) /\ \A m \in 1..(j - 1) : ~DriveMatchAt(url, m)
             k == CHOOSE a \in 1..3 :
                     /\ DriveAlternativeAt(url, i, a)
                     /\ \A b \in 1..(a - 1) : ~DriveAlternativeAt(url, i, b)
             from == i + Len(DriveMarkers[k])
         IN  [matched |-> TRUE,
              fileId |-> SubSeq(url, from, from + RunLen(url, from, IdChars) - 1)]
    ELSE NoMatch

\* variant: the host test is left out
convertGoogleDriveUrl_NoHostTest(url, type) ==
    LET match == DriveMatch(url)
    IN  IF match.matched
        THEN IF type = "image"
             THEN "https://drive.google.com/uc?export=download&id=" \o match.fileId
             ELSE IF type = "video"
             THEN "https://drive.google.com/file/d/" \o match.fileId \o "/preview"
             ELSE Null
        ELSE Null

convertGoogleDriveUrl(url, type) ==
    LET match == DriveMatch(url)
    IN  IF match.matched /\ Includes(url, "drive.google.com")
        THEN IF type = "image"
             THEN "https://drive.google.com/uc?export=download&id=" \o match.fileId
             ELSE IF type = "video"
             THEN "https://drive.google.com/file/d/" \o match.fileId \o "/preview"
             ELSE Null
        ELSE Null

\* file ids one short of, at, and over the minimum length, and one broken by
\* a character outside the class
FileIds ==
    {"1aBcDeFgHiJkLmNoPqRsTuVw",
     "1aBcDeFgHiJkLmNoPqRsTuVwX",
     "1a-cD_FgHiJkLmNoPqRsTuVwXyZ0123",
     "1aBcDeFgHiJk.LmNoPqRsTuVwXyZ0"}

DriveHosts == {"https://drive.google.com", "https://docs.google.com", "drive.google.com"}

DrivePaths ==
    {"/file/d/", "/open?id=", "/uc?id=", "/uc?export=view&id=", "/drive/folders/", "/file/"}

DriveSuffixes == {"", "/view?usp=sharing", "&export=download"}

DriveUrls ==
    {h \o q \o f \o x : h \in DriveHosts, q \in DrivePaths, f \in FileIds, x \in DriveSuffixes}
    \cup {"https://drive.google.com/file/d/short/view?resourcekey=0&id=1aBcDeFgHiJkLmNoPqRsTuVwX",
          "https://example.com/?u=drive.google.com&id=1aBcDeFgHiJkLmNoPqRsTuVwX",
          "https://drive.google.com/file/d/1aBcDeFgHiJkLmNoPqRsTuVwX/view?id=0zYxWvUtSrQpOnMlKjIhGfEdC",
          ""}

DriveInit ==
    /\ GeminiIdle
    /\ applied = 0
    /\ arg \in [url : DriveUrls, type : {"image", "video"}]
    /\ result = Null
    /\ again = Null

ApplyConvertGoogleDriveUrl ==
    /\ applied = 0
    /\ applied' = 1
    /\ result' = convertGoogleDriveUrl(arg.url, arg.type)
    /\ UNCHANGED <<gvars, avars, arg, again>>

\* the converted URL is converted again, with the same type
ReapplyConvertGoogleDriveUrl ==
    /\ applied = 1
    /\ result # Null
    /\ applied' = 2
    /\ again' = convertGoogleDriveUrl(result, arg.type)
    /\ UNCHANGED <<gvars, avars, arg, result>>

DriveNext == ApplyConvertGoogleDriveUrl \/ ReapplyConvertGoogleDriveUrl

SpecDrive == DriveInit /\ [][DriveNext]_vars

(***************************************************************************)
(* getYouTubeEmbedUrl: lib/utils, AdminPage and VideoScribePage copies     *)
(***************************************************************************)
\* the optional groups (?:https?:\/\/)? and (?:www\.)? of the patterns
SchemePrefixes == <<"https://", "http://", "">>
WwwPrefixes == <<"www.", "">>

\* the pattern with the given literal text before its capture group matches
\* with its first character at position i
YouTubePatternAt(url, i, literal) ==
    \E a \in 1..3, b \in 1..2 :
        LET head == SchemePrefixes[a] \o WwwPrefixes[b] \o literal
        IN  /\ HasAt(url, i, head)
            /\ RunLen(url, i + Len(head), IdChars) >= 1

\* url.match(pattern): match[1] of the leftmost match, Null when there is none
YouTubeCapture(url, literal) ==
    IF \E i \in 1..Len(url) : YouTubePatternAt(url, i, literal)
    THEN LET i == CHOOSE j \in 1..Len(url) :
                     /\ YouTubePatternAt(url, j, literal)
                     /\ \A m \in 1..(j - 1) : ~YouTubePatternAt(url, m, literal)
             a == CHOOSE x \in 1..3 :
                     /\ \E b \in 1..2 :
                            HasAt(url, i, SchemePrefixes[x] \o WwwPrefixes[b] \o literal)
                     /\ \A y \in 1..(x - 1) : \A b \in 1..2 :
                            ~HasAt(url, i, SchemePrefixes[y] \o WwwPrefixes[b] \o literal)
             b == CHOOSE x \in 1..2 :
                     /\ HasAt(url, i, SchemePrefixes[a] \o WwwPrefixes[x] \o literal)
                     /\ \A y \in 1..(x - 1) :
                            ~HasAt(url, i, SchemePrefixes[a] \o WwwPrefixes[y] \o literal)
             from == i + Len(SchemePrefixes[a] \o WwwPrefixes[b] \o literal)
         IN  SubSeq(url, from, from + RunLen(url, from, IdChars) - 1)
    ELSE Null

\* for (const pattern of patterns) { ... break; }: the capture of the first
\* pattern of the list that matches, then the embed URL or null
EmbedUrlByPatterns(url, patterns) ==
    IF \E k \in 1..Len(patterns) : YouTubeCapture(url, patterns[k]) # Null
    THEN LET k == CHOOSE j \in 1..Len(patterns) :
                     /\ YouTubeCapture(url, patterns[j]) # Null
                     /\ \A m \in 1..(j - 1) : YouTubeCapture(url, patterns[m]) = Null
         IN  "https://www.youtube.com/embed/" \o YouTubeCapture(url, patterns[k])
    ELSE Null

\* the literal text of the patterns of each copy, in the order of its array
UtilsPatterns ==
    <<"youtube.com/watch?v=", "youtu.be/", "youtube.com/embed/", "youtube.com/shorts/">>

AdminPatterns ==
    <<"youtube.com/watch?v=", "youtu.be/", "youtube.com/embed/", "youtube.com/shorts/">>

\* variant: only the two forms the doc comment of this copy names
ScribePatterns_WatchAndShortLink == <<"youtube.com/watch?v=", "youtu.be/">>

ScribePatterns ==
    <<"youtube.com/watch?v=", "youtu.be/", "youtube.com/embed/", "youtube.com/shorts/">>

getYouTubeEmbedUrl(url) == EmbedUrlByPatterns(url, UtilsPatterns)

AdminGetYouTubeEmbedUrl(url) == EmbedUrlByPatterns(url, AdminPatterns)

ScribeGetYouTubeEmbedUrl(url) == EmbedUrlByPatterns(url, ScribePatterns)

VideoIds == {"3JZ_D3ELwOQ", "dQw4w9WgXcQ", "a-b", ""}

YouTubeHeads == {"https://www.", "https://", "http://www.", "www.", "", "https://m.", "see "}

YouTubePaths ==
    {"youtube.com/watch?v=", "youtu.be/", "youtube.com/embed/", "youtube.com/shorts/",
     "youtube.com/watch?feature=share&v=", "youtube.com/playlist?list=", "vimeo.com/",
     "youtube.com/v/"}

YouTubeTails ==
    {"", "?t=42", "&list=PL1", "#youtube.com/watch?v=zzz9", "?u=youtu.be/yyy8/youtube.com/shorts/sss7"}

YouTubeUrls ==
    {h \o q \o v \o t : h \in YouTubeHeads, q \in YouTubePaths, v \in VideoIds, t \in YouTubeTails}

YouTubeInit ==
    /\ GeminiIdle
    /\ applied = 0
    /\ arg \in YouTubeUrls
    /\ result = <<Null, Null, Null>>
    /\ again = Null

\* the three copies are applied to the same url
ApplyGetYouTubeEmbedUrl ==
    /\ applied = 0
    /\ applied' = 1
    /\ result' = <<getYouTubeEmbedUrl(arg), AdminGetYouTubeEmbedUrl(arg),
                   ScribeGetYouTubeEmbedUrl(arg)>>
    /\ UNCHANGED <<gvars, avars, arg, again>>

YouTubeNext == ApplyGetYouTubeEmbedUrl

SpecYouTube == YouTubeInit /\ [][YouTubeNext]_vars

(***************************************************************************)
(* App: page routing, authentication, LoginPage, admin requests            *)
(***************************************************************************)
MaxTimers == 1
MaxInflight == 2
MaxItems == 2

Pages == {"home", "trending", "collection", "create", "videoScribe", "admin"}
\* the Sidebar entries clicked
ClickedPages == {"home", "collection", "admin"}

\* variant: the authentication test of the admin case is left out
renderPage_NoAuthTest(v, loading, page, auth) ==
    IF v = "apiService" /\ loading THEN "Spinner"
    ELSE CASE page = "home" -> "HomePage"
           [] page = "trending" -> "TrendingPage"
           [] page = "collection" -> "CollectionPage"
           [] page = "create" -> "CreatePage"
           [] page = "admin" -> "AdminPage"
           [] page = "videoScribe" -> "VideoScribePage"
           [] OTHER -> "HomePage"

\* renderPage: the component shown for the given state; only the apiService
\* App has the isLoadingContent test
renderPage(v, loading, page, auth) ==
    IF v = "apiService" /\ loading THEN "Spinner"
    ELSE CASE page = "home" -> "HomePage"
           [] page = "trending" -> "TrendingPage"
           [] page = "collection" -> "CollectionPage"
           [] page = "create" -> "CreatePage"
           [] page = "admin" -> IF auth THEN "AdminPage" ELSE "LoginPage"
           [] page = "videoScribe" -> "VideoScribePage"
           [] OTHER -> "HomePage"

RenderedPage == renderPage(variant, isLoadingContent, currentPage, isAuthenticated)

HardcodedPassword == "Raju"
\* variant: any non-empty password is accepted
PasswordMatches_NonEmpty(pw) == pw # ""

\* password === 'Raju'
PasswordMatches(pw) == pw = HardcodedPassword

IncorrectPasswordMessage == "Incorrect password. Please try again."
TypedPasswords == {"Raju", "raju"}

\* String(isAuthenticated)
BoolString(b) == IF b THEN "true" ELSE "false"

SampleCollectionItems == <<Item("sample1", "c_1.jpeg"), Item("sample2", "c_2.jpeg")>>
SampleVideoItems == <<Item("sample1", "3JZ_D3ELwOQ")>>
ApiFetchFailedMessage == "API fetch failed, loading sample data as a fallback."

ServerIds == {"id1", "id2"}
SampleIds == {"sample1", "sample2"}
ReturnedIds == ServerIds
Urls == {"u1"}
UploadedUrl == "uploaded"
ServerLists == {<<Item("id1", "u0")>>}
ServerVideoLists == {<<Item("id1", "v0")>>}

ImageFetches ==
    {FetchResult("ok", l) : l \in ServerLists}
    \cup {FetchResult("notOk", <<>>), FetchResult("networkError", <<>>)}
VideoFetches ==
    {FetchResult("ok", l) : l \in ServerVideoLists}
    \cup {FetchResult("notOk", <<>>), FetchResult("networkError", <<>>)}

AppInit ==
    /\ GeminiOnly
    /\ PureIdle
    /\ CreateIdle
    /\ variant \in {"apiService", "inlineFetch"}
    /\ currentPage = "home"
    /\ \E stored \in (IF variant = "apiService" THEN {"null", "true", "false"} ELSE {"null"}) :
          /\ isAuthenticated = (variant = "apiService" /\ stored = "true")
          /\ restoredAtMount = (variant = "apiService" /\ stored = "true")
          /\ setItemThrew \in (IF variant = "apiService" THEN BOOLEAN ELSE {FALSE})
          /\ storedAuth = IF variant = "apiService" /\ ~setItemThrew
                          THEN BoolString(isAuthenticated) ELSE stored
    /\ isLoadingContent = (variant = "apiService")
    /\ fetchPending = TRUE
    /\ apiError = "null"
    /\ collectionItems = <<>>
    /\ videoItems = <<>>
    /\ fetchOutcome = FetchPendingOutcome
    /\ overlap = FALSE
    /\ panel = {"image"}
    /\ lastDirect = NoDirectOperation
    /\ password = ""
    /\ loginError = ""
    /\ loginIsLoading = FALSE
    /\ timers = <<>>
    /\ inflight = <<>>
    /\ matchingSubmission = FALSE
    /\ loggedOut = FALSE

\* a pending callback of a LoginPage that is gone: its setError, setIsLoading
\* and setPassword change nothing, so only one that will call onLoginSuccess
\* is kept
StaleTimer(t) == PasswordMatches(t.password)

RECURSIVE Orphaned(_)
Orphaned(tms) ==
    IF tms = <<>> THEN <<>>
    ELSE (IF StaleTimer(Head(tms)) THEN <<[Head(tms) EXCEPT !.live = FALSE]>> ELSE <<>>)
         \o Orphaned(Tail(tms))

\* LoginPage after a step that leaves it with the given state, when the step
\* makes App render newRendered: its state is dropped when it unmounts, and
\* its pending timers then belong to a component that is gone
LoginPageAfter(newRendered, pw, err, loading, tms) ==
    IF RenderedPage = "LoginPage" /\ newRendered # "LoginPage"
    THEN /\ password' = ""
         /\ loginError' = ""
         /\ loginIsLoading' = FALSE
         /\ timers' = Orphaned(tms)
    ELSE /\ password' = pw
         /\ loginError' = err
         /\ loginIsLoading' = loading
         /\ timers' = tms

\* variant: the persisting effect is missing
SetIsAuthenticated_NotPersisted(b) ==
    /\ isAuthenticated' = b
    /\ UNCHANGED <<storedAuth, setItemThrew>>

\* setIsAuthenticated(b); in the apiService App a change runs the effect of
\* lines 97-103, localStorage.setItem, which may throw and is then only logged
SetIsAuthenticated(b) ==
    /\ isAuthenticated' = b
    /\ IF variant = "apiService" /\ b # isAuthenticated
       THEN \E threw \in BOOLEAN :
               /\ setItemThrew' = threw
               /\ storedAuth' = IF threw THEN storedAuth ELSE BoolString(b)
       ELSE UNCHANGED <<storedAuth, setItemThrew>>

\* Sidebar onPageChange = setCurrentPage
Navigate(page) ==
    /\ variant # "none"
    /\ currentPage' = page
    /\ LoginPageAfter(renderPage(variant, isLoadingContent, page, isAuthenticated),
                      password, loginError, loginIsLoading, timers)
    /\ UNCHANGED <<gvars, pvars, cvars, lastDirect, videoItems, fetchOutcome, overlap, panel, setItemThrew, authHistory, variant, isAuthenticated, isLoadingContent, fetchPending,
                   apiError, collectionItems, storedAuth, inflight>>

\* variant: each list is set from its own request
ListsAfterFetch_PerRequest(images, videos) ==
    [collectionItems |-> IF images.status = "ok" THEN images.data ELSE SampleCollectionItems,
     videoItems |-> IF videos.status = "ok" THEN videos.data ELSE SampleVideoItems,
     apiError |-> IF images.status = "ok" /\ videos.status = "ok"
                  THEN "null" ELSE ApiFetchFailedMessage]

\* fetchData of the inlineFetch App: the state it sets once both requests of
\* Promise.all have ended
ListsAfterFetch(images, videos) ==
    IF images.status = "ok" /\ videos.status = "ok"
    THEN [collectionItems |-> images.data, videoItems |-> videos.data, apiError |-> "null"]
    ELSE [collectionItems |-> SampleCollectionItems, videoItems |-> SampleVideoItems,
          apiError |-> ApiFetchFailedMessage]

\* the two requests of loadData (apiService App) / fetchData (inlineFetch
\* App) have ended: Promise.all settles
InitialFetchSettles(images, videos) ==
    /\ variant # "none"
    /\ fetchPending
    /\ fetchOutcome = FetchPendingOutcome
    /\ fetchOutcome' = FetchOutcome(images, videos)
    /\ UNCHANGED <<gvars, pvars, cvars, lastDirect, setItemThrew, authHistory, variant, currentPage,
                   isAuthenticated, isLoadingContent, fetchPending, apiError,
                   collectionItems, videoItems, storedAuth, password, loginError,
                   loginIsLoading, timers, inflight, overlap, panel>>

\* loadData / fetchData goes on after its await: try, catch and finally
InitialFetchHandled ==
    /\ fetchPending
    /\ fetchOutcome # FetchPendingOutcome
    /\ fetchPending' = FALSE
    /\ fetchOutcome' = FetchHandled
    /\ isLoadingContent' = FALSE
    /\ LET images == fetchOutcome.images
           videos == fetchOutcome.videos
       IN  IF variant = "apiService"
           THEN /\ IF images.status = "ok" /\ videos.status = "ok"
                   THEN collectionItems' = images.data /\ videoItems' = videos.data
                   ELSE UNCHANGED <<collectionItems, videoItems>>
                /\ UNCHANGED apiError
           ELSE LET after == ListsAfterFetch(images, videos)
                IN  /\ collectionItems' = after.collectionItems
                    /\ videoItems' = after.videoItems
                    /\ apiError' = after.apiError
    /\ UNCHANGED <<gvars, pvars, cvars, lastDirect, setItemThrew, authHistory, variant, currentPage,
                   isAuthenticated, storedAuth, password, loginError, loginIsLoading,
                   timers, inflight, overlap, panel>>

\* LoginPage: onChange of the password input
TypePassword(pw) ==
    /\ RenderedPage = "LoginPage"
    /\ password' = pw
    /\ UNCHANGED <<gvars, pvars, cvars, lastDirect, videoItems, fetchOutcome, overlap, panel, setItemThrew, authHistory, variant, currentPage, isAuthenticated, isLoadingContent,
                   fetchPending, apiError, collectionItems, storedAuth,
                   loginError, loginIsLoading, timers, inflight>>

\* LoginPage.handleSubmit; the submit button is disabled while isLoading or
\* with an empty password. The callback keeps the password of this render.
SubmitLogin ==
    /\ RenderedPage = "LoginPage"
    /\ ~loginIsLoading
    /\ password # ""
    /\ Len(timers) < MaxTimers
    /\ loginError' = ""
    /\ loginIsLoading' = TRUE
    /\ timers' = Append(timers, [password |-> password, live |-> TRUE])
    /\ matchingSubmission' = (matchingSubmission \/ password = HardcodedPassword)
    /\ UNCHANGED <<gvars, pvars, cvars, lastDirect, videoItems, fetchOutcome, overlap, panel, setItemThrew, restoredAtMount, loggedOut, variant, currentPage, isAuthenticated, isLoadingContent,
                   fetchPending, apiError, collectionItems, storedAuth,
                   password, inflight>>

RemoveAt(seq, k) == SubSeq(seq, 1, k - 1) \o SubSeq(seq, k + 1, Len(seq))

\* the setTimeout callback of handleSubmit runs, also after LoginPage is gone
LoginTimerFires(k) ==
    /\ k \in DOMAIN timers
    /\ LET t == timers[k]
           success == PasswordMatches(t.password)
           auth == IF success THEN TRUE ELSE isAuthenticated
       IN  /\ SetIsAuthenticated(auth)
           /\ LoginPageAfter(renderPage(variant, isLoadingContent, currentPage, auth),
                             IF t.live THEN "" ELSE password,
                             IF t.live /\ ~success THEN IncorrectPasswordMessage
                                                   ELSE loginError,
                             IF t.live THEN FALSE ELSE loginIsLoading,
                             RemoveAt(timers, k))
           /\ loggedOut' = IF success THEN FALSE ELSE loggedOut
    /\ UNCHANGED <<gvars, pvars, cvars, lastDirect, videoItems, fetchOutcome, overlap, panel, matchingSubmission, restoredAtMount, variant, currentPage, isLoadingContent, fetchPending,
                   apiError, collectionItems, inflight>>

\* handleLogout, the onLogout of AdminPage
Logout ==
    /\ RenderedPage = "AdminPage"
    /\ SetIsAuthenticated(FALSE)
    /\ currentPage' = "home"
    /\ loggedOut' = TRUE
    /\ UNCHANGED <<gvars, pvars, cvars, lastDirect, videoItems, fetchOutcome, overlap, panel, matchingSubmission, restoredAtMount, variant, isLoadingContent, fetchPending, apiError,
                   collectionItems, password, loginError, loginIsLoading,
                   timers, inflight>>

\* the admin handlers are props of AdminPage: its buttons are the only callers
AdminHandlersReachable == RenderedPage = "AdminPage"

ItemsOf(kind) == IF kind = "image" THEN collectionItems ELSE videoItems

\* an add/update/delete handler starts: with a file (apiService App) the
\* upload comes first, otherwise the POST / PUT / DELETE is sent at once
StartRequest(kind, op, id, url, withFile) ==
    /\ AdminHandlersReachable
    /\ variant # "directState"
    /\ kind \in panel
    /\ IF overlap THEN Len(inflight) < MaxInflight ELSE inflight = <<>>
    /\ inflight' = Append(inflight,
                          Request(kind, IF withFile THEN "upload" ELSE op, op, id, url,
                                  withFile))
    /\ UNCHANGED <<gvars, pvars, cvars, lastDirect, setItemThrew, authHistory, variant, currentPage,
                   isAuthenticated, isLoadingContent, fetchPending, apiError,
                   collectionItems, videoItems, fetchOutcome, storedAuth, password,
                   loginError, loginIsLoading, timers, overlap, panel>>

\* handleAddCollectionItem / handleSaveNewImage
AddCollectionItem(url, withFile) ==
    /\ Len(collectionItems) < MaxItems
    /\ withFile => variant = "apiService"
    /\ StartRequest("image", "add", "", url, withFile)

\* handleUpdateCollectionItem / handleUpdateImage, for an item of the list shown
UpdateCollectionItem(k, url, withFile) ==
    /\ k \in DOMAIN collectionItems
    /\ withFile => variant = "apiService"
    /\ StartRequest("image", "update", collectionItems[k].id, url, withFile)

\* handleDeleteCollectionItem / handleConfirmDelete, for an item of the list shown
DeleteCollectionItem(k) ==
    /\ k \in DOMAIN collectionItems
    /\ StartRequest("image", "delete", collectionItems[k].id, "", FALSE)

\* handleAddVideoItem / handleSaveNewVideo
AddVideoItem(url) ==
    /\ Len(videoItems) < MaxItems
    /\ StartRequest("video", "add", "", url, FALSE)

\* handleUpdateVideoItem / handleUpdateVideo, for an item of the list shown
UpdateVideoItem(k, url) ==
    /\ k \in DOMAIN videoItems
    /\ StartRequest("video", "update", videoItems[k].id, url, FALSE)

\* handleDeleteVideoItem / handleConfirmDelete, for an item of the list shown
DeleteVideoItem(k) ==
    /\ k \in DOMAIN videoItems
    /\ StartRequest("video", "delete", videoItems[k].id, "", FALSE)

RECURSIVE MapReplace(_, _)
\* prev.map(i => i.id === updated.id ? updated : i)
MapReplace(items, updated) ==
    IF items = <<>> THEN <<>>
    ELSE <<IF Head(items).id = updated.id THEN updated ELSE Head(items)>>
         \o MapReplace(Tail(items), updated)

\* (a filter that stops at the first entry of the id)
FilterOut_FirstOnly(items, id) ==
    LET hits == {n \in DOMAIN items : items[n].id = id}
    IN  IF hits = {} THEN items
        ELSE RemoveAt(items, CHOOSE n \in hits : \A m \in hits : n <= m)

RECURSIVE FilterOut(_, _)
\* prev.filter(i => i.id !== id)
FilterOut(items, id) ==
    IF items = <<>> THEN <<>>
    ELSE (IF Head(items).id # id THEN <<Head(items)>> ELSE <<>>)
         \o FilterOut(Tail(items), id)

\* the body of the upload response, and what uploadImage makes of it
UploadResult == [url |-> UploadedUrl, filename |-> "upload.png"]
uploadImage(body) == body.url

\* variant: the item is sent with its own url
UrlAfterUpload_OwnUrl(itemUrl, body) == itemUrl

\* url = await api.uploadImage(file)
UrlAfterUpload(itemUrl, body) == uploadImage(body)

\* variant: an add sets the list to the new item alone, setItems([newItem])
ListUpdate_AddDropsPrevious(items, r, returned) ==
    CASE r.op = "add" -> <<returned>>
      [] r.op = "update" -> MapReplace(items, returned)
      [] r.op = "delete" -> FilterOut(items, r.id)
      [] OTHER -> items

\* setItems(prev => ...): prev is the list at the time the update is made
ListUpdate(items, r, returned) ==
    CASE r.op = "add" -> <<returned>> \o items
      [] r.op = "update" -> MapReplace(items, returned)
      [] r.op = "delete" -> FilterOut(items, r.id)
      [] OTHER -> items

\* variant: the list is updated whether or not the request succeeded
ListAfterResponse_IgnoresFailure(items, r, ok, returned) ==
    ListUpdate(items, r, returned)

\* the functional update a handler makes after its await: prev is the list
\* at the time the response arrives
ListAfterResponse(items, r, ok, returned) ==
    IF ~ok THEN items ELSE ListUpdate(items, r, returned)

\* the item in the body of a successful response to r, the server having
\* chosen the id returnedId
ReturnedItem(r, ok, returnedId) ==
    IF ok /\ r.op \in {"add", "update"} THEN Item(returnedId, r.url) ELSE NoItem

\* the ids of the items other responses bring and their handlers have not
\* yet put in the list
PendingIds(kind) ==
    {inflight[n].returned.id : n \in {m \in DOMAIN inflight :
         inflight[m].kind = kind /\ inflight[m].status = "ok" /\ inflight[m].op = "add"}}

\* the response to request k arrives
ResponseArrives(k, ok, returnedId) ==
    /\ k \in DOMAIN inflight
    /\ inflight[k].status = "sent"
    /\ LET r == inflight[k]
       IN  \* the id the server gives a new item is not one of a listed item, an
           \* updated item comes back under the id it was sent with
           /\ (ok /\ r.op = "add") =>
                 /\ \A n \in DOMAIN ItemsOf(r.kind) : ItemsOf(r.kind)[n].id # returnedId
                 /\ returnedId \notin PendingIds(r.kind)
           /\ (ok /\ r.op = "update") => returnedId = r.id
           /\ ~(ok /\ r.op \in {"add", "update"}) => returnedId = "id1"
           /\ inflight' = [inflight EXCEPT ![k] =
                             [r EXCEPT !.status = IF ok THEN "ok" ELSE "failed",
                                       !.returned = ReturnedItem(r, ok, returnedId)]]
    /\ UNCHANGED <<gvars, pvars, cvars, lastDirect, setItemThrew, authHistory, variant, currentPage,
                   isAuthenticated, isLoadingContent, fetchPending, apiError,
                   collectionItems, videoItems, fetchOutcome, storedAuth, password,
                   loginError, loginIsLoading, timers, overlap, panel>>

\* the handler of request k goes on after its await, whatever App renders by
\* then: after an upload it sends the add / update, otherwise it updates the list
HandlerResumes(k) ==
    /\ k \in DOMAIN inflight
    /\ inflight[k].status # "sent"
    /\ LET r == inflight[k]
           ok == r.status = "ok"
           after == ListAfterResponse(ItemsOf(r.kind), r, ok, r.returned)
       IN  /\ inflight' = IF ok /\ r.op = "upload"
                          THEN [inflight EXCEPT ![k] =
                                  Request(r.kind, r.next, r.next, r.id,
                                          UrlAfterUpload(r.url, UploadResult),
                                          r.file)]
                          ELSE RemoveAt(inflight, k)
           /\ IF r.op = "upload" THEN UNCHANGED <<collectionItems, videoItems>>
              ELSE IF r.kind = "image"
                   THEN collectionItems' = after /\ UNCHANGED videoItems
                   ELSE videoItems' = after /\ UNCHANGED collectionItems
    /\ UNCHANGED <<gvars, pvars, cvars, lastDirect, setItemThrew, authHistory, variant, currentPage,
                   isAuthenticated, isLoadingContent, fetchPending, apiError,
                   fetchOutcome, storedAuth, password, loginError, loginIsLoading,
                   timers, overlap, panel>>

AppNext ==
    \/ \E page \in ClickedPages : Navigate(page)
    \/ \E images \in ImageFetches, videos \in VideoFetches :
          InitialFetchSettles(images, videos)
    \/ InitialFetchHandled
    \/ \E pw \in TypedPasswords : TypePassword(pw)
    \/ SubmitLogin
    \/ \E k \in 1..MaxTimers : LoginTimerFires(k)
    \/ Logout
    \/ \E url \in Urls, withFile \in BOOLEAN : AddCollectionItem(url, withFile)
    \/ \E k \in 1..MaxItems, url \in Urls, withFile \in BOOLEAN :
          UpdateCollectionItem(k, url, withFile)
    \/ \E k \in 1..MaxItems : DeleteCollectionItem(k)
    \/ \E k \in 1..MaxInflight, ok \in BOOLEAN, returnedId \in ReturnedIds :
          ResponseArrives(k, ok, returnedId)
    \/ \E k \in 1..MaxInflight : HandlerResumes(k)

SpecApp == AppInit /\ [][AppNext]_vars

(***************************************************************************)
(* The admin panel on its own: App after a login and the initial fetch,    *)
(* with handlers started while others are in flight                        *)
(***************************************************************************)
AdminPanelOf(variants) ==
    /\ GeminiOnly
    /\ PureIdle
    /\ CreateIdle
    /\ variant \in variants
    /\ currentPage = "admin"
    /\ isAuthenticated = TRUE
    /\ storedAuth = IF variant = "apiService" THEN "true" ELSE "null"
    /\ setItemThrew = FALSE
    /\ isLoadingContent = FALSE
    /\ fetchPending = FALSE
    /\ fetchOutcome = FetchHandled
    /\ \E images \in ImageFetches, videos \in VideoFetches :
          IF variant = "apiService"
          THEN /\ apiError = "null"
               /\ IF images.status = "ok" /\ videos.status = "ok"
                  THEN collectionItems = images.data /\ videoItems = videos.data
                  ELSE collectionItems = <<>> /\ videoItems = <<>>
          ELSE LET after == ListsAfterFetch(images, videos)
               IN  /\ collectionItems = after.collectionItems
                   /\ videoItems = after.videoItems
                   /\ apiError = after.apiError
    /\ password = ""
    /\ loginError = ""
    /\ loginIsLoading = FALSE
    /\ timers = <<>>
    /\ inflight = <<>>
    /\ overlap = TRUE
    /\ panel \in {{"image"}, {"video"}}
    /\ lastDirect = NoDirectOperation
    /\ matchingSubmission = TRUE
    /\ restoredAtMount = FALSE
    /\ loggedOut = FALSE

RestVariants == {"apiService", "inlineFetch"}

AdminInit == AdminPanelOf(RestVariants)

\* a handler of the AdminPage of part_005: the functional update is made at
\* once, with the handler's own item (a new one gets Date.now() as its id)
DirectOperationRuns(kind, op, id, url) ==
    /\ AdminHandlersReachable
    /\ variant = "directState"
    /\ kind \in panel
    /\ LET r == Request(kind, op, op, id, url, FALSE)
           returned == IF op = "delete" THEN NoItem ELSE Item(id, url)
           after == ListAfterResponse(ItemsOf(kind), r, TRUE, returned)
       IN  /\ lastDirect' = DirectOperation(kind, op, id, returned, 1 - lastDirect.turn)
           /\ IF kind = "image"
              THEN collectionItems' = after /\ UNCHANGED videoItems
              ELSE videoItems' = after /\ UNCHANGED collectionItems
    /\ UNCHANGED <<gvars, pvars, cvars, setItemThrew, authHistory, variant, currentPage,
                   isAuthenticated, isLoadingContent, fetchPending, apiError,
                   fetchOutcome, storedAuth, password, loginError, loginIsLoading,
                   timers, inflight, overlap, panel>>

\* handleSaveNewImage / handleSaveNewVideo of part_005
DirectAdd(kind, url, now) ==
    /\ Len(ItemsOf(kind)) < MaxItems
    /\ DirectOperationRuns(kind, "add", now, url)

\* handleUpdateImage / handleUpdateVideo of part_005
DirectUpdate(kind, k, url) ==
    /\ k \in DOMAIN ItemsOf(kind)
    /\ DirectOperationRuns(kind, "update", ItemsOf(kind)[k].id, url)

\* handleConfirmDelete of part_005
DirectDelete(kind, k) ==
    /\ k \in DOMAIN ItemsOf(kind)
    /\ DirectOperationRuns(kind, "delete", ItemsOf(kind)[k].id, "")

ItemKinds == {"image", "video"}

AdminNext ==
    \/ \E url \in Urls, withFile \in BOOLEAN : AddCollectionItem(url, withFile)
    \/ \E k \in 1..MaxItems, url \in Urls, withFile \in BOOLEAN :
          UpdateCollectionItem(k, url, withFile)
    \/ \E k \in 1..MaxItems : DeleteCollectionItem(k)
    \/ \E url \in Urls : AddVideoItem(url)
    \/ \E k \in 1..MaxItems, url \in Urls : UpdateVideoItem(k, url)
    \/ \E k \in 1..MaxItems : DeleteVideoItem(k)
    \/ \E k \in 1..MaxInflight, ok \in BOOLEAN, returnedId \in ReturnedIds :
          ResponseArrives(k, ok, returnedId)
    \/ \E k \in 1..MaxInflight : HandlerResumes(k)

SpecAdmin == AdminInit /\ [][AdminNext]_vars

\* the admin panel of every version, that of part_005 among them
AdminPanelsInit == AdminPanelOf(RestVariants \cup {"directState"})

AdminPanelsNext ==
    \/ AdminNext
    \/ \E kind \in ItemKinds, url \in Urls, now \in ReturnedIds : DirectAdd(kind, url, now)
    \/ \E kind \in ItemKinds, k \in 1..MaxItems, url \in Urls : DirectUpdate(kind, k, url)
    \/ \E kind \in ItemKinds, k \in 1..MaxItems : DirectDelete(kind, k)

SpecAdminPanels == AdminPanelsInit /\ [][AdminPanelsNext]_vars

\* the runtime runs every pending setTimeout callback, and every fetch settles
AppFairness ==
    /\ WF_vars(\E k \in 1..MaxTimers : LoginTimerFires(k))
    /\ WF_vars(\E images \in ImageFetches, videos \in VideoFetches :
                  InitialFetchSettles(images, videos))
    /\ WF_vars(InitialFetchHandled)
    /\ WF_vars(\E k \in 1..MaxInflight, ok \in BOOLEAN, returnedId \in ReturnedIds :
                  ResponseArrives(k, ok, returnedId))
    /\ WF_vars(\E k \in 1..MaxInflight : HandlerResumes(k))

SpecAppFair == AppInit /\ [][AppNext]_vars /\ AppFairness

(***************************************************************************)
(* apiService: handleResponse                                              *)
(***************************************************************************)
WhiteSpace == {" ", "\t", "\n", "\r"}

RECURSIVE TrimStart(_)
TrimStart(s) ==
    IF Len(s) > 0 /\ Char(s, 1) \in WhiteSpace THEN TrimStart(SubSeq(s, 2, Len(s))) ELSE s

RECURSIVE TrimEnd(_)
TrimEnd(s) ==
    IF Len(s) > 0 /\ Char(s, Len(s)) \in WhiteSpace
    THEN TrimEnd(SubSeq(s, 1, Len(s) - 1)) ELSE s

\* String.prototype.trim
Trim(s) == TrimEnd(TrimStart(s))

\* a JavaScript value: its type and, for strings, numbers and the url of an
\* object, the text that tells it from the others of its type
JsValue(type, text) == [type |-> type, text |-> text]
JsUndefined == JsValue("undefined", "")
JsSyntaxError == JsValue("SyntaxError", "")

\* the text is a JSON string literal without escapes
IsStringLiteral(t) ==
    /\ Len(t) >= 2
    /\ Char(t, 1) = "\""
    /\ Char(t, Len(t)) = "\""
    /\ \A k \in 2..(Len(t) - 1) : Char(t, k) \notin {"\"", "\\"}

ObjectPrefix == "{\"url\":"

\* JSON.parse on the texts a response body holds here: null, numbers, string
\* literals, the empty array and objects with the one member url
JSONParse(text) ==
    LET t == Trim(text)
    IN  CASE t = "null" -> JsValue("null", "")
          [] t = "[]" -> JsValue("array", "")
          [] Len(t) > 0 /\ RunLen(t, 1, Digits) = Len(t) -> JsValue("number", t)
          [] IsStringLiteral(t) -> JsValue("string", SubSeq(t, 2, Len(t) - 1))
          [] /\ HasAt(t, 1, ObjectPrefix)
             /\ Len(t) > Len(ObjectPrefix) + 1
             /\ Char(t, Len(t)) = "}"
             /\ IsStringLiteral(SubSeq(t, Len(ObjectPrefix) + 1, Len(t) - 1))
             -> JsValue("object", SubSeq(t, Len(ObjectPrefix) + 2, Len(t) - 2))
          [] OTHER -> JsSyntaxError

\* a fetch Response: status, the content-type header (Null when absent), body
HttpResponse(status, contentType, body) ==
    [status |-> status, contentType |-> contentType, body |-> body]

\* Response.ok
ResponseOk(res) == res.status >= 200 /\ res.status <= 299

ServerErrorGenericMessage == "The server returned an error. Please try again later."

Resolved(value) == [kind |-> "resolved", value |-> value, message |-> ""]
Rejected(value, message) == [kind |-> "rejected", value |-> value, message |-> message]
NotSettled == [kind |-> "none", value |-> JsUndefined, message |-> ""]

\* response.json()
ResponseJson(res) ==
    LET value == JSONParse(res.body)
    IN  IF value = JsSyntaxError THEN Rejected(JsSyntaxError, "Unexpected token")
        ELSE Resolved(value)

\* variant: the body is parsed whatever the content-type
handleResponse_NoContentTypeTest(res) ==
    IF ~ResponseOk(res)
    THEN Rejected(JsValue("Error", ""), ServerErrorGenericMessage)
    ELSE ResponseJson(res)

\* handleResponse: what the promise it returns settles to
handleResponse(res) ==
    IF ~ResponseOk(res)
    THEN Rejected(JsValue("Error", ""), ServerErrorGenericMessage)
    ELSE IF /\ res.contentType # Null
            /\ res.contentType # ""
            /\ Includes(res.contentType, "application/json")
         THEN ResponseJson(res)
         ELSE Resolved(JsUndefined)

Statuses == {200, 201, 204, 299, 300, 404, 500}
JsonContentTypes == {"application/json", "application/json; charset=utf-8"}
OtherContentTypes == {Null, "", "text/html", "Application/JSON"}
JsonBodies == {"null", "[]", " 42\n", "\"done\"", "{\"url\":\"https://cdn/a.png\"}"}
OtherBodies == {"", "<html>Bad Gateway</html>", "Not Found"}

\* the responses a server sends: a body announced as JSON is JSON
HttpResponses ==
    {HttpResponse(st, ct, b) : st \in Statuses, ct \in JsonContentTypes, b \in JsonBodies}
    \cup {HttpResponse(st, ct, b) : st \in Statuses, ct \in OtherContentTypes,
                                    b \in JsonBodies \cup OtherBodies}

HandleResponseInit ==
    /\ GeminiIdle
    /\ applied = 0
    /\ arg \in HttpResponses
    /\ result = NotSettled
    /\ again = NotApplied

ApplyHandleResponse ==
    /\ applied = 0
    /\ applied' = 1
    /\ result' = handleResponse(arg)
    /\ UNCHANGED <<gvars, avars, arg, again>>

HandleResponseNext == ApplyHandleResponse

SpecHandleResponse == HandleResponseInit /\ [][HandleResponseNext]_vars

(***************************************************************************)
(* Properties of callGeminiWithRetry                                       *)
(***************************************************************************)
LastMessage == ErrorMessageOf(lastCall.thrown)
LastFailed == lastCall.thrown.kind # "none"

\* this step issues a generateContent call in round r
CallIssued(r) == apiCalls'[r] > apiCalls[r]

\* this step is a generateContent call that rejects
CallRejected == (apiCalls' # apiCalls) /\ lastCall'.thrown.kind # "none"

\* the error with which the round running before this step ends in this step
RoundEndsWith(type) ==
    /\ Len(roundErrors') = Len(roundErrors) + 1
    /\ roundErrors'[Len(roundErrors')].name = "GeminiError"
    /\ roundErrors'[Len(roundErrors')].type = type

\* C1: one invocation of callGeminiWithRetry (one round) issues at most 3
\* generateContent calls, and a call after the first one of the round is
\* issued only if the previous call of that round rejected with a message
\* containing 500, INTERNAL or 503 and not 429.
C1_RetryOnlyInternalAtMostThree ==
    [][\A r \in 1..2 :
          /\ apiCalls'[r] <= 3
          /\ (CallIssued(r) /\ apiCalls[r] >= 1) =>
                 /\ lastCall.round = r
                 /\ LastFailed
                 /\ \/ Includes(LastMessage, "500")
                    \/ Includes(LastMessage, "INTERNAL")
                    \/ Includes(LastMessage, "503")
                 /\ ~Includes(LastMessage, "429")]_vars

\* a third call of a round has just rejected after two internal errors
C1_Witness ==
    /\ apiCalls[1] = 3
    /\ Len(delays[1]) = 2
    /\ LastFailed

\* C2: a rejection whose message contains 429 ends the invocation at once
\* with a GeminiError RATE_LIMIT, on whichever attempt: no delay is awaited,
\* no further call is issued, also when the message matches the internal test.
C2_RateLimitEndsAtOnce ==
    [][/\ (CallRejected /\ Includes(ErrorMessageOf(lastCall'.thrown), "429")) =>
              /\ RoundEndsWith("RATE_LIMIT")
              /\ delays' = delays
              /\ pc' = "done"
              /\ outcome'.kind = "thrown"
              /\ outcome'.error.name = "GeminiError"
              /\ outcome'.error.type = "RATE_LIMIT"
       /\ (pc = "done") => (apiCalls' = apiCalls /\ delays' = delays)]_vars

\* a 429 on a later attempt, in a message that also matches the internal test
C2_Witness ==
    /\ pc = "done"
    /\ outcome.error.type = "RATE_LIMIT"
    /\ lastCall.attempt >= 2
    /\ Includes(LastMessage, "429")
    /\ Includes(LastMessage, "500")

\* C3: when the third attempt of a round also rejects with an internal error
\* the round throws a GeminiError SERVER_ERROR; a rejection that is neither
\* rate limit nor internal throws a GeminiError UNKNOWN at once, with no retry.
C3_ServerErrorAndUnknown ==
    [][CallRejected =>
          LET msg == ErrorMessageOf(lastCall'.thrown)
              internal == \/ Includes(msg, "500")
                          \/ Includes(msg, "INTERNAL")
                          \/ Includes(msg, "503")
          IN  /\ (~Includes(msg, "429") /\ ~internal) =>
                     /\ RoundEndsWith("UNKNOWN")
                     /\ delays' = delays
                     /\ pc' = "done"
                     /\ outcome'.error.type = "UNKNOWN"
              /\ (~Includes(msg, "429") /\ internal /\ apiCalls'[round] = 3) =>
                     /\ RoundEndsWith("SERVER_ERROR")
                     /\ pc' = "done"
                     /\ outcome'.error.type = "SERVER_ERROR"]_vars

\* three internal errors in a row ended the round with SERVER_ERROR
C3_Witness ==
    /\ pc = "done"
    /\ outcome.error.type = "SERVER_ERROR"
    /\ apiCalls[1] = 3
    /\ Len(delays[1]) = 2

(***************************************************************************)
(* Properties of generateDecadeImage and generateImageFromPrompt           *)
(***************************************************************************)
\* the prompt contains four digits followed by "s"
ContainsDecade(p) ==
    \E i \in 1..(Len(p) - 4) :
        /\ \A k \in i..(i + 3) : Char(p, k) \in Digits
        /\ Char(p, i + 4) = "s"

\* C4: the fallback round is started if and only if the first round fails
\* with a GeminiError BLOCKED and the prompt contains a decade; every other
\* first-round error is rethrown with no fallback round, and there is never
\* a third round.
C4_FallbackIffBlockedWithDecade ==
    [][/\ (Len(roundErrors) = 0 /\ Len(roundErrors') = 1) =>
              LET e == roundErrors'[1]
                  fallback == /\ fn = "generateDecadeImage"
                              /\ e.name = "GeminiError"
                              /\ e.type = "BLOCKED"
                              /\ ContainsDecade(prompt)
              IN  /\ fallback <=> (round' = 2 /\ pc' = "calling")
                  /\ fallback => textPart' = getFallbackPrompt(extractDecade(prompt))
                  /\ ~fallback => (pc' = "done" /\ outcome' = Thrown(e) /\ round' = 1)
       /\ round' = 2 => (round = 2 \/ (round = 1 /\ Len(roundErrors) = 0))
       /\ round' <= 2
       /\ Len(roundErrors') <= 2
       /\ Len(roundErrors) >= 1 => round' = round]_vars

\* the fallback round is running after a blocked first round
C4_Witness ==
    /\ fn = "generateDecadeImage"
    /\ round = 2
    /\ pc = "calling"
    /\ apiCalls[2] = 0
    /\ roundErrors[1].type = "BLOCKED"

\* C5: when the fallback round fails too, the error thrown to the caller is
\* the fallback round's error, not the first round's BLOCKED error; when the
\* prompt has no decade the first round's BLOCKED error itself is rethrown.
C5_FallbackErrorIsThrown ==
    (fn = "generateDecadeImage" /\ pc = "done" /\ outcome.kind = "thrown"
        /\ Len(roundErrors) >= 1) =>
        /\ Len(roundErrors) = 2 =>
               /\ outcome.error = roundErrors[2]
               /\ outcome.error.origin = 2
               /\ outcome.error # roundErrors[1]
        /\ (Len(roundErrors) = 1 /\ roundErrors[1].type = "BLOCKED") =>
               /\ ~ContainsDecade(prompt)
               /\ outcome.error = roundErrors[1]
               /\ outcome.error.origin = 1

\* both rounds were blocked: the second BLOCKED error is the one thrown
C5_Witness ==
    /\ fn = "generateDecadeImage"
    /\ pc = "done"
    /\ Len(roundErrors) = 2
    /\ roundErrors[2].type = "BLOCKED"
    /\ outcome.error.origin = 2

\* the argument has the form data:image/<word>;base64,<data>, <data> being
\* any run of characters on one line
WellFormedDataUrl(s) ==
    \E w \in 1..Len(s) :
        /\ 11 + w + 8 <= Len(s)
        /\ SubSeq(s, 1, 11) = "data:image/"
        /\ \A k \in 12..(11 + w) : Char(s, k) \in WordChars
        /\ SubSeq(s, 12 + w, 19 + w) = ";base64,"
        /\ \A k \in (20 + w)..Len(s) : Char(s, k) \notin LineTerminators

\* C6: generateImageFromPrompt throws a plain Error before any API call when
\* the image argument is not of the form data:image/<word>;base64,<data>;
\* otherwise it runs exactly one round, never a fallback round, and rethrows
\* the error of that round unchanged.
C6_CustomPromptOneRound ==
    (fn = "generateImageFromPrompt") =>
        IF WellFormedDataUrl(imageDataUrl)
        THEN /\ round = 1
             /\ apiCalls[2] = 0
             /\ Len(roundErrors) <= 1
             /\ textPart = prompt
             /\ (pc = "done" /\ outcome.kind = "thrown") =>
                    /\ Len(roundErrors) = 1
                    /\ outcome.error = roundErrors[1]
                    /\ outcome.error.origin = 1
        ELSE /\ pc = "done"
             /\ outcome = Thrown(PlainError(InvalidDataUrlMessage, 0))
             /\ apiCalls = <<0, 0>>
             /\ round = 0

\* a blocked custom prompt with a decade in it: rethrown, no fallback
C6_Witness ==
    /\ fn = "generateImageFromPrompt"
    /\ pc = "done"
    /\ ContainsDecade(prompt)
    /\ outcome.kind = "thrown"
    /\ outcome.error.type = "BLOCKED"

\* a malformed image argument was rejected
C6_WitnessRejected ==
    /\ fn = "generateImageFromPrompt"
    /\ pc = "done"
    /\ outcome.error.name = "Error"

(***************************************************************************)
(* Properties of processGeminiResponse                                     *)
(***************************************************************************)
\* C7: processGeminiResponse returns the image or throws a typed error: a
\* response whose promptFeedback.blockReason or first candidate's
\* finishReason is SAFETY throws BLOCKED even when it carries an image part;
\* otherwise the first part of the first candidate that has inlineData is
\* returned as data:<mimeType>;base64,<data>; with no image part it throws
\* BLOCKED.
C7_ImageOrTypedError ==
    (applied = 1) =>
        LET safety == \/ arg.blockReason = "SAFETY"
                      \/ /\ Len(arg.candidates) >= 1
                         /\ arg.candidates[1].finishReason = "SAFETY"
            parts == IF Len(arg.candidates) >= 1 /\ arg.candidates[1].hasContent
                     THEN arg.candidates[1].parts ELSE <<>>
            images == {i \in 1..Len(parts) : parts[i].hasInlineData}
        IN  IF safety \/ images = {}
            THEN /\ result.kind = "thrown"
                 /\ result.value = ""
                 /\ result.error.name = "GeminiError"
                 /\ result.error.type = "BLOCKED"
            ELSE /\ result.kind = "returned"
                 /\ result.error = NoError
                 /\ \E i \in images :
                        /\ \A k \in images : i <= k
                        /\ result.value =
                               "data:" \o parts[i].mimeType \o ";base64," \o parts[i].data

\* a response blocked for safety that carries an image part
C7_Witness ==
    /\ applied = 1
    /\ result.kind = "thrown"
    /\ Len(arg.candidates) >= 1
    /\ arg.candidates[1].finishReason = "SAFETY"
    /\ arg.candidates[1].hasContent
    /\ \E i \in 1..Len(arg.candidates[1].parts) : arg.candidates[1].parts[i].hasInlineData

(***************************************************************************)
(* Properties of convertGoogleDriveUrl                                     *)
(***************************************************************************)
\* a file id starts at position i of url: at least 25 characters of
\* [A-Za-z0-9_-] right after "/file/d/", "id=" or "uc?id="
FileIdStartsAt(url, i) ==
    /\ \/ (i > 8 /\ SubSeq(url, i - 8, i - 1) = "/file/d/")
       \/ (i > 3 /\ SubSeq(url, i - 3, i - 1) = "id=")
       \/ (i > 6 /\ SubSeq(url, i - 6, i - 1) = "uc?id=")
    /\ i + 24 <= Len(url)
    /\ \A k \in i..(i + 24) : Char(url, k) \in IdChars

\* the file id that starts at i: all the id characters from i on
FileIdAt(url, i) ==
    SubSeq(url, i, CHOOSE j \in i..Len(url) :
                       /\ \A k \in i..j : Char(url, k) \in IdChars
                       /\ (j = Len(url) \/ Char(url, j + 1) \notin IdChars))

\* C8: convertGoogleDriveUrl returns non-null exactly when the input contains
\* drive.google.com and a file id of at least 25 characters after /file/d/,
\* id= or uc?id=; type image gives the uc?export=download&id=<id> URL and
\* type video the /file/d/<id>/preview URL, and converting the output again
\* with the same type returns it unchanged.
C8_DriveUrlConversion ==
    LET url == arg.url
        valid == /\ \E p \in 1..(Len(url) - 15) :
                        SubSeq(url, p, p + 15) = "drive.google.com"
                 /\ \E i \in 1..Len(url) : FileIdStartsAt(url, i)
    IN  /\ (applied >= 1) =>
              /\ (result # Null) <=> valid
              /\ valid =>
                     \E i \in 1..Len(url) :
                         /\ FileIdStartsAt(url, i)
                         /\ arg.type = "image" =>
                                result = "https://drive.google.com/uc?export=download&id="
                                             \o FileIdAt(url, i)
                         /\ arg.type = "video" =>
                                result = "https://drive.google.com/file/d/"
                                             \o FileIdAt(url, i) \o "/preview"
        /\ (applied = 2) => again = result

\* a sharing link was converted to the image form and converted again
C8_Witness ==
    /\ applied = 2
    /\ arg.type = "image"
    /\ Includes(arg.url, "/file/d/")
    /\ again = result
    /\ result # arg.url

(***************************************************************************)
(* Properties of getYouTubeEmbedUrl                                        *)
(***************************************************************************)
\* url has the given form: the literal text followed by a video id character
HasForm(url, literal) ==
    \E i \in 1..(Len(url) - Len(literal)) :
        /\ SubSeq(url, i, i + Len(literal) - 1) = literal
        /\ Char(url, i + Len(literal)) \in IdChars

\* the video id of the first occurrence of the form in url
VideoIdOf(url, literal) ==
    LET i == CHOOSE j \in 1..(Len(url) - Len(literal)) :
                 /\ SubSeq(url, j, j + Len(literal) - 1) = literal
                 /\ Char(url, j + Len(literal)) \in IdChars
                 /\ \A m \in 1..(j - 1) :
                        ~(/\ SubSeq(url, m, m + Len(literal) - 1) = literal
                          /\ Char(url, m + Len(literal)) \in IdChars)
        from == i + Len(literal)
        to == CHOOSE j \in from..Len(url) :
                 /\ \A k \in from..j : Char(url, k) \in IdChars
                 /\ (j = Len(url) \/ Char(url, j + 1) \notin IdChars)
    IN  SubSeq(url, from, to)

Forms == <<"youtube.com/watch?v=", "youtu.be/", "youtube.com/embed/", "youtube.com/shorts/">>

\* C9: for a URL of one of the four forms getYouTubeEmbedUrl returns
\* https://www.youtube.com/embed/<videoId>, the id being the one captured by
\* the first form that matches in the order watch, youtu.be, embed, shorts;
\* for a URL of none of the forms it returns null; the utils, admin panel
\* and Video Scribe copies return the same result for every input.
C9_YouTubeEmbedUrl ==
    (applied = 1) =>
        /\ result[2] = result[1]
        /\ result[3] = result[1]
        /\ \A k \in 1..4 :
               (HasForm(arg, Forms[k]) /\ \A m \in 1..(k - 1) : ~HasForm(arg, Forms[m])) =>
                   result[1] = "https://www.youtube.com/embed/" \o VideoIdOf(arg, Forms[k])
        /\ (\A k \in 1..4 : ~HasForm(arg, Forms[k])) => result[1] = Null

\* a shorts URL was converted by all three copies
C9_Witness ==
    /\ applied = 1
    /\ Includes(arg, "youtube.com/shorts/3JZ_D3ELwOQ")
    /\ ~Includes(arg, "watch")
    /\ result[3] = "https://www.youtube.com/embed/3JZ_D3ELwOQ"

(***************************************************************************)
(* Properties of App.renderPage                                            *)
(***************************************************************************)
\* an admin add / update / delete handler is invoked in this step
AdminHandlerInvoked == Len(inflight') = Len(inflight) + 1

AdminPageOnlyWhenAuthenticated ==
    RenderedPage = "AdminPage" => currentPage = "admin" /\ isAuthenticated

NoHandlerWhileUnauthenticated ==
    [][AdminHandlerInvoked => currentPage = "admin" /\ isAuthenticated]_vars

\* C10 as stated: AdminPage is rendered only when currentPage is "admin" and
\* isAuthenticated is true; when currentPage is "admin" and isAuthenticated is
\* false the LoginPage is rendered instead; no admin add / update / delete
\* handler is invoked while unauthenticated.
C10_AsStated ==
    /\ [](/\ AdminPageOnlyWhenAuthenticated
          /\ (currentPage = "admin" /\ ~isAuthenticated => RenderedPage = "LoginPage"))
    /\ NoHandlerWhileUnauthenticated

\* C10 amended: AdminPage is rendered only when currentPage is "admin" and
\* isAuthenticated is true; when currentPage is "admin" and isAuthenticated is
\* false the LoginPage is rendered instead, except in the App that tracks
\* isLoadingContent while the initial load is pending, where the loading
\* spinner is rendered; no admin add / update / delete handler is invoked
\* while unauthenticated.
C10_LoginPageOrSpinner ==
    /\ [](/\ AdminPageOnlyWhenAuthenticated
          /\ (currentPage = "admin" /\ ~isAuthenticated =>
                 RenderedPage = IF variant = "apiService" /\ isLoadingContent
                                THEN "Spinner" ELSE "LoginPage"))
    /\ NoHandlerWhileUnauthenticated

\* after a logout with a request still in flight, the admin page shows LoginPage
C10_Witness ==
    /\ currentPage = "admin"
    /\ ~isAuthenticated
    /\ RenderedPage = "LoginPage"
    /\ Len(inflight) >= 1

(***************************************************************************)
(* Properties of the authentication                                        *)
(***************************************************************************)
\* isAuthenticated turns true in this step
BecomesAuthenticated == ~isAuthenticated /\ isAuthenticated'

\* a pending callback of handleSubmit that captured the hard-coded password runs
MatchingCallbackRuns ==
    /\ \E k \in DOMAIN timers : timers[k].password = HardcodedPassword
    /\ Len(timers') < Len(timers)

\* handleSubmit captures the password as entered when the form is submitted
CapturesEnteredPassword ==
    Len(timers') > Len(timers) => timers'[Len(timers')].password = password

\* C11 as stated: isAuthenticated is true only after a LoginPage submission
\* whose password, as entered at submit time, equals the hard-coded password;
\* no other action, initial condition or persisted value makes it true.
C11_AsStated == isAuthenticated => matchingSubmission

\* C11 amended: isAuthenticated is true only after a LoginPage submission
\* whose password, as entered at submit time, equals the hard-coded password,
\* or because localStorage held 'isAuthenticated' = 'true' when the App that
\* persists it mounted; it turns true only when the callback of such a
\* submission runs.
C11_PasswordOrPersisted ==
    /\ [](isAuthenticated =>
            matchingSubmission \/ (variant = "apiService" /\ restoredAtMount))
    /\ [][BecomesAuthenticated => MatchingCallbackRuns]_vars
    /\ [][CapturesEnteredPassword]_vars

\* a login with the hard-coded password, without a persisted value
C11_Witness ==
    /\ isAuthenticated
    /\ matchingSubmission
    /\ ~restoredAtMount
    /\ RenderedPage = "AdminPage"

(***************************************************************************)
(* Properties of handleLogout                                              *)
(***************************************************************************)
\* handleLogout runs in this step
LogoutStep == ~loggedOut /\ loggedOut'

LogoutInOneStep == [][LogoutStep => ~isAuthenticated' /\ currentPage' = "home"]_vars

NoAdminPageWhileLoggedOut == [](loggedOut => RenderedPage # "AdminPage")

ListsChange == collectionItems' # collectionItems \/ videoItems' # videoItems

\* the handler of an add / update / delete whose request succeeded goes on
SucceededRequestResumes ==
    \E k \in DOMAIN inflight :
        /\ inflight[k].status = "ok"
        /\ inflight[k].op \in {"add", "update", "delete"}
        /\ inflight' = RemoveAt(inflight, k)

\* the handler of a request or upload that failed goes on
FailedRequestResumes ==
    \E k \in DOMAIN inflight :
        /\ inflight[k].status = "failed"
        /\ inflight' = RemoveAt(inflight, k)

\* C13: for every add, update and delete of a collection or video item the
\* local list is modified only after the corresponding REST request has
\* succeeded; if the request (or a preceding image upload) fails,
\* collectionItems and videoItems are left exactly as they were.
C13_ListsChangeOnlyOnSuccess ==
    [][/\ ListsChange => SucceededRequestResumes
       /\ FailedRequestResumes => ~ListsChange]_vars

\* an add has succeeded and the response of another request says it failed
C13_Witness ==
    /\ \E k \in DOMAIN inflight : inflight[k].status = "failed"
    /\ \/ collectionItems # <<>> /\ Head(collectionItems).id = "id2"
       \/ videoItems # <<>> /\ Head(videoItems).id = "id2"

(***************************************************************************)
(* Properties of the initial fetch                                         *)
(***************************************************************************)
\* fetchData goes on after its await in this step
FetchHandledStep == variant = "inlineFetch" /\ fetchPending /\ ~fetchPending'

BothFromServerOrBothSamples ==
    LET images == fetchOutcome.images
        videos == fetchOutcome.videos
    IN  IF images.status = "ok" /\ videos.status = "ok"
        THEN /\ collectionItems' = images.data
             /\ videoItems' = videos.data
             /\ apiError' = "null"
        ELSE /\ collectionItems' = SampleCollectionItems
             /\ videoItems' = SampleVideoItems
             /\ apiError' # "null"

NeverMixed ==
    /\ ~(collectionItems \in ServerLists /\ videoItems = SampleVideoItems)
    /\ ~(collectionItems = SampleCollectionItems /\ videoItems \in ServerVideoLists)

\* C14: when the initial fetch of images or videos fails (network error or a
\* non-ok status on either request) both lists are replaced by the static
\* sample lists and apiError is set to a non-null message; when both requests
\* succeed both lists hold the server data and apiError is null; no state has
\* one list from the server and the other from the samples.
C14_SamplesOnAnyFailure ==
    /\ [][FetchHandledStep => BothFromServerOrBothSamples]_vars
    /\ [](variant = "inlineFetch" => NeverMixed)

\* the fetch failed and the samples are shown
C14_Witness ==
    /\ variant = "inlineFetch"
    /\ ~fetchPending
    /\ apiError = ApiFetchFailedMessage
    /\ collectionItems = SampleCollectionItems
    /\ videoItems = SampleVideoItems

(***************************************************************************)
(* Properties of handleResponse                                            *)
(***************************************************************************)
HasJsonContentType ==
    /\ arg.contentType # Null
    /\ \E p \in 1..(Len(arg.contentType) - 15) :
          SubSeq(arg.contentType, p, p + 15) = "application/json"

AddedAtFront(before, after, item) ==
    /\ Len(after) = Len(before) + 1
    /\ after[1] = item
    /\ \A n \in DOMAIN before : after[n + 1] = before[n]

\* after is before with exactly the entries of item's id replaced by item
ReplacedInPlace(before, after, item) ==
    /\ Len(after) = Len(before)
    /\ \A n \in DOMAIN before :
          after[n] = IF before[n].id = item.id THEN item ELSE before[n]

\* after is before without exactly the entries of the given id, the others
\* in their order: position n of after is the n-th such entry of before
RemovedById(before, after, id) ==
    LET kept == {n \in DOMAIN before : before[n].id # id}
    IN  /\ Len(after) = Cardinality(kept)
        /\ \A n \in kept :
              after[Cardinality({m \in kept : m <= n})] = before[n]

EffectOf(op, id, returned, before, after) ==
    CASE op = "add" -> AddedAtFront(before, after, returned)
      [] op = "update" -> ReplacedInPlace(before, after, returned)
      [] op = "delete" -> RemovedById(before, after, id)
      [] OTHER -> after = before

ItemsAfter(kind) == IF kind = "image" THEN collectionItems' ELSE videoItems'

\* the handler of a successful request goes on, or a direct operation runs:
\* the list of its kind changes as the operation says
SuccessfulOperationEffect ==
    /\ \A k \in DOMAIN inflight :
          (inflight[k].status = "ok" /\ inflight[k].op # "upload"
             /\ inflight' = RemoveAt(inflight, k))
          => EffectOf(inflight[k].op, inflight[k].id, inflight[k].returned,
                      ItemsOf(inflight[k].kind), ItemsAfter(inflight[k].kind))
    /\ lastDirect' # lastDirect
          => EffectOf(lastDirect'.op, lastDirect'.id, lastDirect'.returned,
                      ItemsOf(lastDirect'.kind), ItemsAfter(lastDirect'.kind))

\* C16: on the local list a successful add puts the item returned by the
\* server at the front and keeps all previous entries in order; update
\* replaces exactly the entries whose id equals the id of the item returned
\* and leaves length and order unchanged; delete removes exactly the entries
\* whose id equals the deleted id and leaves every other entry and the order
\* unchanged.
C16_EffectOnList == [][SuccessfulOperationEffect]_vars

\* an update by the AdminPage of part_005 has replaced two entries of one id
C16_Witness ==
    /\ lastDirect.op = "update"
    /\ Len(ItemsOf(lastDirect.kind)) = 2
    /\ \A n \in 1..2 : ItemsOf(lastDirect.kind)[n] = lastDirect.returned

(***************************************************************************)
(* The upload before an add or an update                                   *)
(***************************************************************************)
\* the add / update requests of handlers that were given a file
RequestsAfterUpload ==
    {n \in DOMAIN inflight : inflight[n].file /\ inflight[n].op # "upload"}

\* the number of add / update requests of handlers with a file, after the step
NumAfterUploadNext ==
    Cardinality({n \in DOMAIN inflight' : inflight'[n].file /\ inflight'[n].op # "upload"})

\* the handler of upload k goes on after a successful upload: its add / update
\* is sent in the place of the upload, with the url field of the upload's body
UploadThenRequest(k) ==
    /\ inflight[k].op = "upload"
    /\ inflight[k].status = "ok"
    /\ DOMAIN inflight' = DOMAIN inflight
    /\ \A n \in DOMAIN inflight : n # k => inflight'[n] = inflight[n]
    /\ inflight'[k].op = inflight[k].next
    /\ inflight'[k].op \in {"add", "update"}
    /\ inflight'[k].status = "sent"
    /\ inflight'[k].id = inflight[k].id
    /\ inflight'[k].url = UploadResult.url

\* a handler given a file sends the upload alone first; an add / update of
\* such a handler is sent only by a step that follows its successful upload,
\* and carries the uploaded url; the handler of a failed upload ends with
\* nothing sent and the lists as they were
UploadBeforeRequest ==
    /\ Len(inflight') > Len(inflight) => NumAfterUploadNext = Cardinality(RequestsAfterUpload)
    /\ NumAfterUploadNext > Cardinality(RequestsAfterUpload)
          => /\ NumAfterUploadNext = Cardinality(RequestsAfterUpload) + 1
             /\ \E k \in DOMAIN inflight : UploadThenRequest(k)
    /\ \A k \in DOMAIN inflight :
          (inflight[k].op = "upload" /\ inflight[k].status = "failed"
             /\ inflight' = RemoveAt(inflight, k))
          => UNCHANGED <<collectionItems, videoItems>>
    /\ \A k \in DOMAIN inflight :
          (inflight[k].op = "upload" /\ inflight[k].status = "ok")
          => inflight' # RemoveAt(inflight, k)
    /\ \A k \in DOMAIN inflight :
          (inflight[k].op = "upload" /\ inflight[k].status = "ok"
             /\ inflight' # inflight /\ Len(inflight') = Len(inflight)
             /\ inflight'[k] # inflight[k])
          => UploadThenRequest(k)

\* C17: when a file is supplied to handleAddCollectionItem or
\* handleUpdateCollectionItem, the upload completes before the add / update
\* request is sent, the item is sent with the url returned by the upload (not
\* the item's own url), and if the upload fails no add / update request is
\* sent; uploadImage resolves only to the url field returned by the server.
C17_UploadBeforeRequest ==
    /\ [][UploadBeforeRequest]_vars
    /\ [](\A n \in RequestsAfterUpload :
             /\ inflight[n].url = UploadResult.url
             /\ inflight[n].url \notin Urls)

\* an item sent after its upload has come back from the server and is listed
C17_Witness ==
    /\ collectionItems # <<>>
    /\ collectionItems[1].url = UploadedUrl
    /\ \E k \in DOMAIN inflight : inflight[k].op = "upload" /\ inflight[k].status = "failed"

(***************************************************************************)
(* CreatePage: upload, prompt, handleGenerate, handleReset                 *)
(***************************************************************************)
MaxGenerations == 2

InitialPrompts == {"", "1980s"}
UploadedImages == {"data:image/png;base64,AAAA"}
TypedPrompts == {"", "  ", " 1950s style "}
\* one of the six prompts, cut short
INSPIRING_PROMPTS == {"Reimagine this person as a noble knight"}
ResultUrls == {"data:image/png;base64,R1", "data:image/png;base64,R2"}

\* how a generateImageFromPrompt call can end
GenerationOutcomes ==
    {Returned(u) : u \in ResultUrls}
        \cup {Thrown(GeminiError("gemini", t, "api")) : t \in GeminiErrorType}
        \cup {Thrown(PlainError("network", "api"))}

\* a generateImageFromPrompt call handleGenerate awaits
Generation(image, text) == [image |-> image, prompt |-> text, outcome |-> NoOutcome]

\* CreatePage mounts with initialPrompt as its prompt
CreatePageInit ==
    /\ GeminiOnly
    /\ PureIdle
    /\ variant = "none"
    /\ currentPage = "create"
    /\ isAuthenticated = FALSE
    /\ isLoadingContent = FALSE
    /\ fetchPending = FALSE
    /\ apiError = "null"
    /\ collectionItems = <<>>
    /\ videoItems = <<>>
    /\ fetchOutcome = FetchPendingOutcome
    /\ overlap = FALSE
    /\ panel = {"image"}
    /\ lastDirect = NoDirectOperation
    /\ storedAuth = "null"
    /\ setItemThrew = FALSE
    /\ password = ""
    /\ loginError = ""
    /\ loginIsLoading = FALSE
    /\ timers = <<>>
    /\ inflight = <<>>
    /\ matchingSubmission = FALSE
    /\ restoredAtMount = FALSE
    /\ loggedOut = FALSE
    /\ initialPrompt \in InitialPrompts
    /\ uploadedImage = "null"
    /\ promptText = initialPrompt
    /\ generatedResult = IdleResult
    /\ isLoading = FALSE
    /\ generations = <<>>

CreateUnchanged ==
    UNCHANGED <<gvars, pvars, variant, currentPage, isAuthenticated, isLoadingContent,
                fetchPending, apiError, collectionItems, videoItems, fetchOutcome,
                storedAuth, setItemThrew, password, loginError, loginIsLoading,
                timers, inflight, overlap, panel, lastDirect, authHistory,
                initialPrompt>>

\* reader.onloadend of processFile
ProcessFile(image) ==
    /\ uploadedImage' = image
    /\ generatedResult' = IdleResult
    /\ UNCHANGED <<promptText, isLoading, generations>>
    /\ CreateUnchanged

\* onChange of the textarea
SetPrompt(text) ==
    /\ promptText' = text
    /\ UNCHANGED <<uploadedImage, generatedResult, isLoading, generations>>
    /\ CreateUnchanged

handleInspireMe(randomPrompt) == SetPrompt(randomPrompt)

\* if (!uploadedImage || !prompt.trim() || isLoading) return;
MayGenerate == uploadedImage # "null" /\ Trim(promptText) # "" /\ ~isLoading

\* handleGenerate up to its await
handleGenerate ==
    /\ MayGenerate
    /\ Len(generations) < MaxGenerations
    /\ isLoading' = TRUE
    /\ generatedResult' = GeneratedResult("pending", Undefined, Undefined)
    /\ generations' = Append(generations, Generation(uploadedImage, promptText))
    /\ UNCHANGED <<uploadedImage, promptText>>
    /\ CreateUnchanged

\* handleGenerate called where it returns at once
handleGenerateReturns ==
    /\ ~MayGenerate
    /\ UNCHANGED <<uploadedImage, promptText, generatedResult, isLoading, generations>>
    /\ CreateUnchanged

\* generateImageFromPrompt call k resolves or rejects
GenerationSettles(k, res) ==
    /\ k \in DOMAIN generations
    /\ generations[k].outcome = NoOutcome
    /\ generations' = [generations EXCEPT ![k].outcome = res]
    /\ UNCHANGED <<uploadedImage, promptText, generatedResult, isLoading>>
    /\ CreateUnchanged

\* variant: every error gets the message of the default case
FriendlyErrorMessage_AlwaysDefault(err) == "An unexpected error occurred."

\* the message the catch block of handleGenerate chooses
FriendlyErrorMessage(err) ==
    IF IsGeminiError(err)
    THEN CASE err.type = "BLOCKED" ->
                 "Blocked for safety reasons. Try a different prompt or photo."
           [] err.type = "RATE_LIMIT" -> "Too many requests. Please wait a moment."
           [] err.type = "SERVER_ERROR" -> "The AI model is busy. Please try again."
           [] OTHER -> "An unexpected error occurred."
    ELSE "Generation failed. Please try again."

\* handleGenerate goes on after its await: try / catch / finally
GenerationHandled(k) ==
    /\ k \in DOMAIN generations
    /\ generations[k].outcome # NoOutcome
    /\ LET res == generations[k].outcome
       IN  generatedResult' =
              IF res.kind = "returned"
              THEN GeneratedResult("done", res.value, Undefined)
              ELSE GeneratedResult("error", Undefined, FriendlyErrorMessage(res.error))
    /\ isLoading' = FALSE
    /\ generations' = RemoveAt(generations, k)
    /\ UNCHANGED <<uploadedImage, promptText>>
    /\ CreateUnchanged

\* the Start Over button, shown whenever an image is uploaded
handleReset ==
    /\ uploadedImage # "null"
    /\ uploadedImage' = "null"
    /\ promptText' = initialPrompt
    /\ generatedResult' = IdleResult
    /\ isLoading' = FALSE
    /\ UNCHANGED generations
    /\ CreateUnchanged

CreateNext ==
    \/ \E image \in UploadedImages : ProcessFile(image)
    \/ \E text \in TypedPrompts : SetPrompt(text)
    \/ \E randomPrompt \in INSPIRING_PROMPTS : handleInspireMe(randomPrompt)
    \/ handleGenerate
    \/ handleGenerateReturns
    \/ \E k \in 1..MaxGenerations, res \in GenerationOutcomes : GenerationSettles(k, res)
    \/ \E k \in 1..MaxGenerations : GenerationHandled(k)
    \/ handleReset

SpecCreate == CreatePageInit /\ [][CreateNext]_vars

(***************************************************************************)
(* Properties of CreatePage generation                                     *)
(***************************************************************************)
\* a generateImageFromPrompt call is made in this step
GenerationStarts == Len(generations') > Len(generations)

\* the text is not empty and not all white space
NonBlank(text) == \E n \in 1..Len(text) : SubSeq(text, n, n) \notin WhiteSpace

\* the result the claim names for the outcome of a generation
ResultFor(res) ==
    IF res.kind = "returned"
    THEN GeneratedResult("done", res.value, Undefined)
    ELSE GeneratedResult("error", Undefined,
            IF res.error.name # "GeminiError" THEN "Generation failed. Please try again."
            ELSE IF res.error.type = "BLOCKED"
                 THEN "Blocked for safety reasons. Try a different prompt or photo."
            ELSE IF res.error.type = "RATE_LIMIT"
                 THEN "Too many requests. Please wait a moment."
            ELSE IF res.error.type = "SERVER_ERROR"
                 THEN "The AI model is busy. Please try again."
            ELSE "An unexpected error occurred.")

GenerateStep ==
    /\ GenerationStarts =>
          /\ uploadedImage # "null"
          /\ NonBlank(promptText)
          /\ ~isLoading
          /\ isLoading'
          /\ generatedResult'.status = "pending"
          /\ generations' = Append(generations, Generation(uploadedImage, promptText))
    /\ \A k \in DOMAIN generations :
          (Len(generations') < Len(generations) /\ generations' = RemoveAt(generations, k))
          => /\ generations[k].outcome # NoOutcome
             /\ ~isLoading'
             /\ generatedResult' = ResultFor(generations[k].outcome)

\* C18: handleGenerate sends no request unless an image is uploaded, the
\* prompt is non-blank and isLoading is false; a started generation sets
\* status 'pending' and always ends with isLoading false and status 'done'
\* with the returned url, or status 'error' with the message chosen by error
\* type (BLOCKED, RATE_LIMIT, SERVER_ERROR each their own message, UNKNOWN
\* 'An unexpected error occurred.', any non-GeminiError 'Generation failed.
\* Please try again.').
C18_Generation == [][GenerateStep]_vars

\* a generation has ended with a RATE_LIMIT error while another is awaited
C18_Witness ==
    /\ generatedResult.status = "error"
    /\ generatedResult.error = "Too many requests. Please wait a moment."
    /\ ~isLoading
    /\ generations # <<>>

(***************************************************************************)
(* Overlapping admin operations                                            *)
(***************************************************************************)
\* the ids of the entries of the list the administrator works on
ListedIds ==
    UNION {{ItemsOf(kind)[n].id : n \in DOMAIN ItemsOf(kind)} : kind \in panel}

ListedIdsNext ==
    UNION {{ItemsAfter(kind)[n].id : n \in DOMAIN ItemsAfter(kind)} : kind \in panel}

\* the handler of request k, which succeeded, goes on in this step
SucceededResumes(k, op) ==
    /\ inflight[k].op = op
    /\ inflight[k].status = "ok"
    /\ inflight' = RemoveAt(inflight, k)

\* whatever else is in flight: a successful add puts its item in the list, a
\* successful delete takes its id out; an id leaves the list only by a
\* successful delete of that id and enters it only by a successful add
NoLostUpdate ==
    /\ \A k \in DOMAIN inflight :
          /\ SucceededResumes(k, "add") => inflight[k].returned.id \in ListedIdsNext
          /\ SucceededResumes(k, "delete") => inflight[k].id \notin ListedIdsNext
    /\ \A id \in ListedIds \ ListedIdsNext :
          \E k \in DOMAIN inflight : SucceededResumes(k, "delete") /\ inflight[k].id = id
    /\ \A id \in ListedIdsNext \ ListedIds :
          \E k \in DOMAIN inflight :
             SucceededResumes(k, "add") /\ inflight[k].returned.id = id

\* C19: overlapping admin operations do not lose updates: with several add /
\* update / delete requests in flight and their responses arriving in any
\* order, each successful operation's effect is applied to the list as it is
\* at response time, so the list contains every successfully added item that
\* was not deleted and no successfully deleted item (by induction on the
\* steps: an added id stays until a successful delete of it, a deleted id
\* stays out until a successful add brings it).
C19_NoLostUpdate == [][NoLostUpdate]_vars

\* an add and a delete are in flight together and both have succeeded, the
\* response to the later request having arrived too
C19_Witness ==
    /\ Len(inflight) = 2
    /\ inflight[1].op = "delete" /\ inflight[1].status = "ok"
    /\ inflight[2].op = "add" /\ inflight[2].status = "ok"
    /\ inflight[1].id \in ListedIds
    /\ inflight[2].returned.id \notin ListedIds

====
